---------------------------- MODULE Spec2Model ----------------------------
(***************************************************************************)
(* A model of the CHIP estimation engine (gotchoices/chip):                *)
(*   workbench/lib/impute.py      norm_predict                             *)
(*   workbench/lib/pipeline.py    wage ratios, alpha estimation, CHIP      *)
(*   workbench/lib/aggregate.py   weighting schemes                        *)
(*   workbench/studies/...        run_all_weightings, aggregate_by_year    *)
(*   reproduction/chip_repro/...  Estimator, Aggregator                    *)
(*                                                                         *)
(* Numbers.  The program computes in IEEE doubles.  The model computes in  *)
(* exact rationals extended with NaN, +Inf and -Inf: a number is a pair    *)
(* <<n, d>>, d > 0 and gcd(n, d) = 1 for a finite value n/d, <<0, 0>> for  *)
(* NaN, <<1, 0>> for +Inf and <<-1, 0>> for -Inf.  Rounding is not         *)
(* modelled; division by zero, NaN propagation and pandas' skipping of     *)
(* NaN in sums and means are.                                              *)
(***************************************************************************)
EXTENDS Integers, Sequences, FiniteSets, TLC

VARIABLES
    pcI,          \* norm_predict: "input" | "done" | "ratios" | "pipeline"
    df,           \* norm_predict: the input table (sequence of rows)
    target_cols,  \* norm_predict: the target columns, in processing order
    imputed,      \* norm_predict: the returned table
    ratio_rows,   \* pipeline.impute_wage_ratios: rows (country, occupation, wage_ratio)
    pcW,          \* wage ratios: "input" | "done"
    wages_df,     \* calculate_wage_ratios: rows (country, year, occupation, wage)
    wage_ratios,  \* calculate_wage_ratios: rows (country, occupation, wage_ratio)
    pcA,          \* alpha estimation: the step reached
    engine,       \* alpha estimation: "workbench" (lib.pipeline) | "reproduction" (Estimator)
    estimation,   \* alpha estimation: the Estimator's "estimation" configuration
    est_data,     \* alpha estimation: the estimation data
    prepared,     \* Estimator: the prepared estimation data
    alphas_est,   \* the table of estimate_alphas / _estimate_country_alphas
    mean_alpha,   \* the mean_alpha of estimate_alphas
    alphas,       \* the alpha table after filtering / imputation
    pcG,          \* workbench aggregation: "off" | "input" | "done"
    caller,       \* workbench aggregation: what was called on country_df
    country_df,   \* workbench aggregation: the country table (columns, rows)
    out,          \* workbench aggregation: the value returned
    logG,         \* workbench aggregation: the warnings logged
    pcR,          \* Aggregator / timeseries: the step reached
    weighting,    \* Aggregator.primary_weight / the weighting of aggregate_by_year
    agg_data,     \* Aggregator / timeseries: the table aggregated (columns, rows)
    chip,         \* Aggregator / timeseries: the value returned
    logR,         \* Aggregator / timeseries: the log records
    pcC,                \* CHIP pipeline: "off" | "input" | "merged" | "done" | "raised"
    labor_with_wages,   \* prepare_labor_data: rows (country, year, occupation, wage)
    eff_labor_df,       \* prepare_labor_data: eff_labor, rows (country, year, eff_labor)
    pwt_df,             \* prepare_labor_data: pwt, rows (country, year, rgdpna, rnna, hc)
    enable_imputation,  \* estimate_chip: enable_imputation
    chip_data,          \* prepare_labor_data()["est_data"], the input of estimate_chip
    chip_out,           \* estimate_chip: the value returned
    pcL,                \* effective labor: "off" | "input" | "workbench" | "cleaner"
    labor_df,           \* effective labor: rows (country, year, occupation, labor_hours)
    ratios_df,          \* effective labor: wage ratios (country, occupation, wage_ratio)
    eff_out,            \* effective labor: the table returned
    pcP,          \* run_pipeline / main: the position reached
    run_config,   \* run_pipeline: dry_run, save_intermediate, exclusions found
    steps,        \* PipelineContext.steps: (name, status, error)
    errors,       \* PipelineContext.errors: (type, message, step)
    warnings,     \* PipelineContext.warnings
    raising,      \* the exception that is propagating, or None
    results,      \* run_pipeline: results
    ctx_report,   \* run_pipeline: the report generated, or None
    report_saved, \* save_report has written the report
    main_branch   \* main: the branch taken

varsI == <<pcI, df, target_cols, imputed, ratio_rows>>
varsW == <<pcW, wages_df, wage_ratios>>
varsA == <<pcA, engine, estimation, est_data, prepared, alphas_est, mean_alpha, alphas>>
varsG == <<pcG, caller, country_df, out, logG>>
varsR == <<pcR, weighting, agg_data, chip, logR>>
varsC == <<pcC, labor_with_wages, eff_labor_df, pwt_df, enable_imputation, chip_data, chip_out>>
varsL == <<pcL, labor_df, ratios_df, eff_out>>
varsP == <<pcP, run_config, steps, errors, warnings, raising, results, ctx_report,
           report_saved, main_branch>>
vars  == <<varsI, varsW, varsA, varsG, varsR, varsC, varsL, varsP>>

\* a component that a specification does not run
IdleI == /\ pcI = "off" /\ df = <<>> /\ target_cols = <<>> /\ imputed = <<>>
         /\ ratio_rows = {}
IdleW == pcW = "off" /\ wages_df = {} /\ wage_ratios = {}
IdleA == /\ pcA = "off" /\ engine = "none" /\ estimation = <<>> /\ est_data = <<>>
         /\ prepared = <<>> /\ alphas_est = <<>> /\ mean_alpha = <<0, 0>> /\ alphas = <<>>
IdleG == pcG = "off" /\ caller = "none" /\ country_df = <<>> /\ out = <<>> /\ logG = <<>>
IdleR == pcR = "off" /\ weighting = "none" /\ agg_data = <<>> /\ chip = <<>> /\ logR = <<>>
IdleC == /\ pcC = "off" /\ labor_with_wages = <<>> /\ eff_labor_df = <<>> /\ pwt_df = <<>>
         /\ enable_imputation = FALSE /\ chip_data = <<>> /\ chip_out = <<>>
IdleL == pcL = "off" /\ labor_df = <<>> /\ ratios_df = {} /\ eff_out = <<>>
IdleP == /\ pcP = "off" /\ run_config = <<>> /\ steps = <<>> /\ errors = <<>>
         /\ warnings = <<>> /\ raising = "none" /\ results = <<>> /\ ctx_report = <<>>
         /\ report_saved = FALSE /\ main_branch = "none"

-----------------------------------------------------------------------------
(* Extended rational arithmetic *)

NaN    == <<0, 0>>
PosInf == <<1, 0>>
NegInf == <<-1, 0>>

Abs(n)  == IF n < 0 THEN -n ELSE n
Sign(n) == IF n < 0 THEN -1 ELSE IF n > 0 THEN 1 ELSE 0

RECURSIVE GCD(_, _)
GCD(a, b) == IF b = 0 THEN a ELSE GCD(b, a % b)

\* The number n/d: normalised; x/0 is +-Inf and 0/0 is NaN.
Rat(n, d) ==
    IF d = 0 THEN <<Sign(n), 0>>
    ELSE LET g == GCD(Abs(n), Abs(d))
             s == Sign(d)
         IN  <<(s * n) \div g, (s * d) \div g>>

Num(n) == <<n, 1>>

isna(x)     == x = NaN
notna(x)    == x # NaN
isfinite(x) == x[2] # 0

RAdd(x, y) ==
    IF isna(x) \/ isna(y) THEN NaN
    ELSE IF ~isfinite(x) THEN (IF ~isfinite(y) /\ y # x THEN NaN ELSE x)
    ELSE IF ~isfinite(y) THEN y
    ELSE Rat(x[1] * y[2] + y[1] * x[2], x[2] * y[2])

RNeg(x)    == <<-x[1], x[2]>>
RSub(x, y) == RAdd(x, RNeg(y))
RMul(x, y) == Rat(x[1] * y[1], x[2] * y[2])

Recip(y) ==
    IF y[2] = 0 THEN (IF y[1] = 0 THEN NaN ELSE Num(0))
    ELSE IF y[1] = 0 THEN PosInf
    ELSE IF y[1] > 0 THEN <<y[2], y[1]>> ELSE <<-y[2], -y[1]>>

RDiv(x, y) == RMul(x, Recip(y))

\* x < y as IEEE compares: false whenever an operand is NaN.
RLt(x, y) ==
    /\ notna(x) /\ notna(y)
    /\ x # y
    /\ IF ~isfinite(x) THEN x = NegInf
       ELSE IF ~isfinite(y) THEN y = PosInf
       ELSE x[1] * y[2] < y[1] * x[2]

RLe(x, y) == notna(x) /\ notna(y) /\ (x = y \/ RLt(x, y))

RECURSIVE RSum(_)
RSum(s) == IF s = <<>> THEN Num(0) ELSE RAdd(Head(s), RSum(Tail(s)))

RECURSIVE DropNA(_)
DropNA(s) ==
    IF s = <<>> THEN <<>>
    ELSE (IF isna(Head(s)) THEN <<>> ELSE <<Head(s)>>) \o DropNA(Tail(s))

\* pandas Series.sum(): NaN is skipped, the empty sum is 0.
sum(s) == RSum(DropNA(s))

\* pandas Series.mean(): NaN is skipped, the mean of nothing is NaN.
mean(s) == LET v == DropNA(s) IN RDiv(RSum(v), Num(Len(v)))

RECURSIVE Products(_, _)
Products(xs, ys) ==
    IF xs = <<>> THEN <<>>
    ELSE <<RMul(Head(xs), Head(ys))>> \o Products(Tail(xs), Tail(ys))

AllFinite(s) == \A i \in DOMAIN s : isfinite(s[i])

-----------------------------------------------------------------------------
(* np.linalg.lstsq(X, y, rcond=None)[0] for X = [1, x]: the least-squares  *)
(* solution, and the one of minimum norm when X is rank deficient (every   *)
(* x equal).  LAPACK fails on non-finite input, and numpy then raises      *)
(* LinAlgError.                                                            *)

LstsqRaises(xs, ys) == ~(AllFinite(xs) /\ AllFinite(ys))

Lstsq1(xs, ys) ==
    LET n   == Num(Len(xs))
        Sx  == RSum(xs)
        Sy  == RSum(ys)
        Sxx == RSum(Products(xs, xs))
        Sxy == RSum(Products(xs, ys))
        det == RSub(RMul(n, Sxx), RMul(Sx, Sx))
    IN  IF det # Num(0)
        THEN LET b1 == RDiv(RSub(RMul(n, Sxy), RMul(Sx, Sy)), det)
                 b0 == RDiv(RSub(Sy, RMul(b1, Sx)), n)
             IN  <<b0, b1>>
        ELSE LET c == xs[1]
                 b == RDiv(RDiv(Sy, n), RAdd(Num(1), RMul(c, c)))
             IN  <<b, RMul(b, c)>>

\* X_pred_const @ beta for one row
Predict1(beta, x) == RAdd(beta[1], RMul(beta[2], x))

-----------------------------------------------------------------------------
(* impute.norm_predict on a table with the numeric columns A and B: every  *)
(* target has the other column as its one predictor.                       *)

MIN_TRAIN == 3

Cols == {"A", "B"}

RECURSIVE Pick(_, _, _, _)
\* df.loc[mask, col].values
Pick(d, mask, col, i) ==
    IF i > Len(d) THEN <<>>
    ELSE (IF i \in mask THEN <<d[i][col]>> ELSE <<>>) \o Pick(d, mask, col, i + 1)

Column(d, col) == [i \in DOMAIN d |-> d[i][col]]

\* a mean fill that forgets the mask: df[target] = df[target].mean()
MeanFill_NoMask(d, mask, target) ==
    LET mean_val == mean(Column(d, target))
    IN  [i \in DOMAIN d |-> [d[i] EXCEPT ![target] = mean_val]]

\* df.loc[mask, target] = df[target].mean()
MeanFill(d, mask, target) ==
    LET mean_val == mean(Column(d, target))
    IN  [i \in DOMAIN d |->
            IF i \in mask THEN [d[i] EXCEPT ![target] = mean_val] ELSE d[i]]

\* One pass of the loop "for target in target_cols" on the table d.
ImputeTarget(d, target, numeric_cols) ==
    LET missing_mask == {i \in DOMAIN d : isna(d[i][target])}
        available_predictors == numeric_cols \ {target}
        train_mask == {i \in DOMAIN d \ missing_mask :
                          \A p \in available_predictors : notna(d[i][p])}
        pred_mask  == {i \in missing_mask :
                          \A p \in available_predictors : notna(d[i][p])}
    IN  IF missing_mask = {} THEN d
        ELSE IF available_predictors = {} THEN MeanFill(d, missing_mask, target)
        ELSE IF Cardinality(train_mask) < MIN_TRAIN
             THEN MeanFill(d, missing_mask, target)
        ELSE LET p       == CHOOSE q \in available_predictors : TRUE
                 X_train == Pick(d, train_mask, p, 1)
                 y_train == Pick(d, train_mask, target, 1)
             IN  IF LstsqRaises(X_train, y_train)
                 THEN MeanFill(d, missing_mask, target)
                 ELSE IF pred_mask = {} THEN MeanFill(d, missing_mask, target)
                 ELSE LET beta == Lstsq1(X_train, y_train)
                          d2 == [i \in DOMAIN d |->
                                   IF i \in pred_mask
                                   THEN [d[i] EXCEPT ![target] = Predict1(beta, d[i][p])]
                                   ELSE d[i]]
                          still_missing == {i \in DOMAIN d2 : isna(d2[i][target])}
                      IN  IF still_missing = {} THEN d2
                          ELSE MeanFill(d2, still_missing, target)

\* a norm_predict that imputes every column, whatever the target columns
norm_predict_AllColumns(d, targets) == ImputeTarget(ImputeTarget(d, "A", Cols), "B", Cols)

RECURSIVE norm_predict(_, _)
norm_predict(d, targets) ==
    IF targets = <<>> THEN d
    ELSE norm_predict(ImputeTarget(d, Head(targets), Cols), Tail(targets))

-----------------------------------------------------------------------------
(* Input tables of norm_predict: NRows rows, each cell missing or one of   *)
(* 1..MaxVal.  The result does not depend on the order of the rows, so one *)
(* table per multiset of rows is enumerated.                               *)

MaxVal == 2
NRows  == 5

CellVals == {NaN} \cup {Num(v) : v \in 1..MaxVal}

\* the rows, numbered 1..NKinds
NKinds == (MaxVal + 1) * (MaxVal + 1)
CellOf(k) == IF k = 0 THEN NaN ELSE Num(k)
RowOf(n)  == [A |-> CellOf((n - 1) \div (MaxVal + 1)),
              B |-> CellOf((n - 1) % (MaxVal + 1))]

RECURSIVE SortedSeqs(_, _, _)
\* the non-decreasing sequences of length n over lo..hi
SortedSeqs(n, lo, hi) ==
    IF n = 0 THEN {<<>>}
    ELSE UNION {{<<k>> \o s : s \in SortedSeqs(n - 1, k, hi)} : k \in lo..hi}

Tables == {[i \in 1..NRows |-> RowOf(s[i])] : s \in SortedSeqs(NRows, 1, NKinds)}

TargetOrders == {<<"A", "B">>, <<"B", "A">>, <<"A">>, <<"B">>}

ImputeInit ==
    /\ pcI = "input"
    /\ df \in Tables
    /\ target_cols = <<>>
    /\ imputed = <<>>
    /\ ratio_rows = {}

\* norm_predict(df, target_cols=tc)
NormPredict ==
    /\ pcI = "input"
    /\ \E tc \in TargetOrders :
          /\ target_cols' = tc
          /\ imputed' = norm_predict(df, tc)
    /\ pcI' = "done"
    /\ UNCHANGED <<df, ratio_rows, varsW, varsA, varsG, varsR, varsC, varsL, varsP>>

\* impute.impute_wage_ratios(wage_ratios) on a table whose occupation columns
\* are A and B
impute_wage_ratios(d) ==
    LET occupation_cols == <<"A", "B">>
        missing_before == Cardinality({<<i, c>> \in (DOMAIN d) \X Cols : isna(d[i][c])})
    IN  IF missing_before = 0 THEN d ELSE norm_predict(d, occupation_cols)

\* impute_wage_ratios(df)
ImputeWageRatios ==
    /\ pcI = "input"
    /\ target_cols' = <<"A", "B">>
    /\ imputed' = impute_wage_ratios(df)
    /\ pcI' = "ratios"
    /\ UNCHANGED <<df, ratio_rows, varsW, varsA, varsG, varsR, varsC, varsL, varsP>>

-----------------------------------------------------------------------------
(* pipeline.impute_wage_ratios: pivot to country x occupation, norm_predict *)
(* on every occupation column, melt back.  The occupations are A and B,    *)
(* the countries are numbered.                                             *)

RECURSIVE Ascending(_)
\* the members of a set of numbers, in increasing order (a sorted index)
Ascending(S) ==
    IF S = {} THEN <<>>
    ELSE LET m == CHOOSE x \in S : \A y \in S : x <= y
         IN  <<m>> \o Ascending(S \ {m})

\* wage_ratios.pivot(index="country", columns="occupation",
\*                   values="wage_ratio").reset_index()
\* a column that is not in .columns is carried as missing and never read
wage_pivot_of(rows) ==
    LET index == Ascending({r.country : r \in rows})
        cell(c, o) == IF \E r \in rows : r.country = c /\ r.occupation = o
                      THEN (CHOOSE r \in rows :
                               r.country = c /\ r.occupation = o).wage_ratio
                      ELSE NaN
    IN  [columns |-> {r.occupation : r \in rows},
         rows    |-> [k \in DOMAIN index |->
                        [country |-> index[k],
                         A |-> cell(index[k], "A"), B |-> cell(index[k], "B")]]]

\* the occupation columns of the pivot, in column order
OccCols(columns) ==
    (IF "A" \in columns THEN <<"A">> ELSE <<>>) \o (IF "B" \in columns THEN <<"B">> ELSE <<>>)

RECURSIVE norm_predict_on(_, _, _)
\* norm_predict on a table whose numeric columns are numeric_cols
norm_predict_on(d, targets, numeric_cols) ==
    IF targets = <<>> THEN d
    ELSE norm_predict_on(ImputeTarget(d, Head(targets), numeric_cols),
                         Tail(targets), numeric_cols)

RECURSIVE melt(_, _)
\* .melt(id_vars=["country"], value_vars=occ_cols, var_name="occupation",
\*       value_name="wage_ratio")
melt(d, value_vars) ==
    IF value_vars = <<>> THEN <<>>
    ELSE [i \in DOMAIN d |-> [country |-> d[i].country,
                              occupation |-> Head(value_vars),
                              wage_ratio |-> d[i][Head(value_vars)]]]
         \o melt(d, Tail(value_vars))

\* a pipeline.impute_wage_ratios that imputes every column by its mean alone
pipeline_impute_wage_ratios_MeanOnly(rows) ==
    LET wage_pivot == wage_pivot_of(rows)
        occ_cols   == OccCols(wage_pivot.columns)
    IN  melt(norm_predict_on(wage_pivot.rows, occ_cols, {}), occ_cols)

pipeline_impute_wage_ratios(rows) ==
    LET wage_pivot == wage_pivot_of(rows)
        occ_cols   == OccCols(wage_pivot.columns)
    IN  melt(norm_predict_on(wage_pivot.rows, occ_cols, wage_pivot.columns), occ_cols)

\* the long table whose pivot has the cells of d: a missing cell is a row
\* with a missing ratio, or no row at all
LongRows(d, absent) ==
    {[country |-> p[1], occupation |-> p[2], wage_ratio |-> d[p[1]][p[2]]] :
        p \in {q \in (DOMAIN d) \X Cols : ~(absent /\ isna(d[q[1]][q[2]]))}}

\* wage_ratios = impute_wage_ratios(wage_ratios)
PipelineImputeWageRatios ==
    /\ pcI = "input"
    /\ \E absent \in BOOLEAN :
          /\ LongRows(df, absent) # {}
          /\ ratio_rows' = LongRows(df, absent)
          /\ target_cols' = OccCols({r.occupation : r \in LongRows(df, absent)})
          /\ imputed' = pipeline_impute_wage_ratios(LongRows(df, absent))
    /\ pcI' = "pipeline"
    /\ UNCHANGED <<df, varsW, varsA, varsG, varsR, varsC, varsL, varsP>>

ImputeNext == NormPredict \/ ImputeWageRatios \/ PipelineImputeWageRatios

InitImpute == ImputeInit /\ IdleW /\ IdleA /\ IdleG /\ IdleR /\ IdleC /\ IdleL /\ IdleP

SpecImpute == InitImpute /\ [][ImputeNext]_vars

-----------------------------------------------------------------------------
(* C1: norm_predict never changes a cell that is observed in its input:    *)
(* for every row and column, an observed input value is the output value,  *)
(* whichever branch fills the missing cells.                               *)
C1_ObservedUnchanged ==
    pcI = "done" =>
        \A i \in DOMAIN df : \A c \in Cols :
            notna(df[i][c]) => imputed[i][c] = df[i][c]

\* a regression prediction and a mean fill happened beside observed cells
C1_Witness ==
    /\ pcI = "done"
    /\ \E i, j \in DOMAIN df :
          /\ isna(df[i]["A"]) /\ notna(df[i]["B"])
          /\ isna(df[j]["A"]) /\ isna(df[j]["B"])
          /\ notna(imputed[i]["A"]) /\ notna(imputed[j]["A"])
          /\ imputed[i]["A"] # imputed[j]["A"]
    /\ Cardinality({i \in DOMAIN df : notna(df[i]["A"]) /\ notna(df[i]["B"])}) >= MIN_TRAIN

-----------------------------------------------------------------------------
(* pipeline.calculate_wage_ratios.  wages_df holds at most one row per     *)
(* (country, year, occupation).                                            *)

\* the rows of a set, in some order (sums of exact numbers ignore it)
RECURSIVE SetToSeq(_)
SetToSeq(S) ==
    IF S = {} THEN <<>>
    ELSE LET x == CHOOSE y \in S : TRUE IN <<x>> \o SetToSeq(S \ {x})

\* df.merge(ref_wages, on=["country", "year"], how="left")
MergeRefWages(wages, ref_wages) ==
    UNION {LET matches == {m \in ref_wages :
                              m.country = r.country /\ m.year = r.year}
           IN  IF matches = {}
               THEN {[country |-> r.country, year |-> r.year,
                      occupation |-> r.occupation, wage |-> r.wage,
                      ref_wage |-> NaN]}
               ELSE {[country |-> r.country, year |-> r.year,
                      occupation |-> r.occupation, wage |-> r.wage,
                      ref_wage |-> m.ref_wage] : m \in matches}
           : r \in wages}

\* the wages of a set of rows
WagesOf(rows) == LET g == SetToSeq(rows) IN [i \in DOMAIN g |-> g[i].wage]

\* averages the wages over the years first and divides afterwards
calculate_wage_ratios_RatioOfMeans(wages, reference) ==
    LET keys == {<<r.country, r.occupation>> : r \in wages}
        of(c, o) == {q \in wages : q.country = c /\ q.occupation = o}
    IN  {[country |-> k[1], occupation |-> k[2],
          wage_ratio |-> RDiv(mean(WagesOf(of(k[1], k[2]))),
                              mean(WagesOf(of(k[1], reference))))] : k \in keys}

calculate_wage_ratios(wages, reference) ==
    LET ref_wages == {[country |-> r.country, year |-> r.year, ref_wage |-> r.wage] :
                         r \in {q \in wages : q.occupation = reference}}
        merged    == MergeRefWages(wages, ref_wages)
        keys      == {<<r.country, r.occupation>> : r \in merged}
        group(k)  == SetToSeq({r \in merged : r.country = k[1] /\ r.occupation = k[2]})
    IN  {[country |-> k[1], occupation |-> k[2],
          wage_ratio |-> mean([i \in DOMAIN group(k) |->
                                  RDiv(group(k)[i].wage, group(k)[i].ref_wage)])] :
            k \in keys}

(* Inputs: country c1 has, for every year and occupation, no row, a row    *)
(* with a missing wage, or a row with a wage in 0..MaxWage; country c2 has *)
(* no rows or one fixed year.                                              *)

MaxWage == 2
NYears  == 2

Years == 1..NYears
Occupations == {"Managers", "Elementary"}
Absent == <<0, -1>>
WageVals == {Absent, NaN} \cup {Num(v) : v \in 0..MaxWage}

RowsOf(c, f) ==
    {[country |-> c, year |-> k[1], occupation |-> k[2], wage |-> f[k]] :
        k \in {q \in DOMAIN f : f[q] # Absent}}

OtherCountryRows ==
    {{}, {[country |-> "c2", year |-> 1, occupation |-> "Managers", wage |-> Num(2)],
          [country |-> "c2", year |-> 1, occupation |-> "Elementary", wage |-> Num(1)]}}

WageInit ==
    /\ pcW = "input"
    /\ wages_df \in {RowsOf("c1", f) \cup o :
                        f \in [Years \X Occupations -> WageVals], o \in OtherCountryRows}
    /\ wage_ratios = {}

\* wage_ratios = calculate_wage_ratios(labor_with_wages, reference="Managers")
CalculateWageRatios ==
    /\ pcW = "input"
    /\ wage_ratios' = calculate_wage_ratios(wages_df, "Managers")
    /\ pcW' = "done"
    /\ UNCHANGED <<wages_df, varsI, varsA, varsG, varsR, varsC, varsL, varsP>>

InitWage == WageInit /\ IdleI /\ IdleA /\ IdleG /\ IdleR /\ IdleC /\ IdleL /\ IdleP

SpecWage == InitWage /\ [][CalculateWageRatios]_vars

\* the wage of (country, year, occupation); NaN when there is no such row
W(c, y, o) ==
    LET rs == {r \in wages_df : r.country = c /\ r.year = y /\ r.occupation = o}
    IN  IF rs = {} THEN NaN ELSE (CHOOSE r \in rs : TRUE).wage

YearsOf(c) == {r.year : r \in {q \in wages_df : q.country = c}}

RatioRow(c, o) ==
    CHOOSE r \in wage_ratios : r.country = c /\ r.occupation = o

HasRatioRow(c, o) == \E r \in wage_ratios : r.country = c /\ r.occupation = o

Half(x) == RDiv(x, Num(2))

\* a country with exactly the two periods y1 and y2, in both of which the
\* occupation o and the reference have positive wages
TwoPeriods(c, o, y1, y2) ==
    /\ y1 < y2 /\ YearsOf(c) = {y1, y2}
    /\ \A y \in {y1, y2} : RLt(Num(0), W(c, y, "Managers")) /\ isfinite(W(c, y, o))
                              /\ RLe(Num(0), W(c, y, o))

PeriodRatio(c, o, y) == RDiv(W(c, y, o), W(c, y, "Managers"))

MeanOfRatios2(c, o, y1, y2) ==
    Half(RAdd(PeriodRatio(c, o, y1), PeriodRatio(c, o, y2)))

RatioOfMeans2(c, o, y1, y2) ==
    RDiv(Half(RAdd(W(c, y1, o), W(c, y2, o))),
         Half(RAdd(W(c, y1, "Managers"), W(c, y2, "Managers"))))

WageCountries == {"c1", "c2"}

(* C4 as claimed: on a 2-period, 2-category input whose per-period ratios  *)
(* differ, calculate_wage_ratios returns the mean-of-ratios and that value *)
(* differs from the ratio-of-means.                                        *)
C4_Original ==
    pcW = "done" =>
        \A c \in WageCountries : \A y1, y2 \in Years :
            (TwoPeriods(c, "Elementary", y1, y2)
             /\ PeriodRatio(c, "Elementary", y1) # PeriodRatio(c, "Elementary", y2))
            => /\ RatioRow(c, "Elementary").wage_ratio
                    = MeanOfRatios2(c, "Elementary", y1, y2)
               /\ RatioRow(c, "Elementary").wage_ratio
                    # RatioOfMeans2(c, "Elementary", y1, y2)

(* C4 amended: calculate_wage_ratios returns, for each entity and          *)
(* category, the mean over the entity's periods of the per-period ratio    *)
(* wage / reference wage; on a 2-period input that value differs from the  *)
(* ratio-of-means exactly when the per-period ratios differ and the        *)
(* reference wages of the two periods differ as well.                      *)
C4_MeanOfRatios ==
    pcW = "done" =>
        /\ \A c \in WageCountries : \A o \in Occupations :
              LET ys == SetToSeq({y \in Years : \E r \in wages_df :
                                     r.country = c /\ r.year = y /\ r.occupation = o})
              IN  IF ys = <<>> THEN ~HasRatioRow(c, o)
                  ELSE /\ HasRatioRow(c, o)
                       /\ RatioRow(c, o).wage_ratio
                            = mean([i \in DOMAIN ys |-> PeriodRatio(c, o, ys[i])])
        /\ \A c \in WageCountries : \A y1, y2 \in Years :
              TwoPeriods(c, "Elementary", y1, y2)
              => /\ RatioRow(c, "Elementary").wage_ratio
                      = MeanOfRatios2(c, "Elementary", y1, y2)
                 /\ (RatioRow(c, "Elementary").wage_ratio
                        # RatioOfMeans2(c, "Elementary", y1, y2))
                     <=> (/\ PeriodRatio(c, "Elementary", y1)
                               # PeriodRatio(c, "Elementary", y2)
                          /\ W(c, y1, "Managers") # W(c, y2, "Managers"))

\* two periods with different ratios and different reference wages: the
\* returned ratio is the mean-of-ratios and not the ratio-of-means
C4_Witness ==
    /\ pcW = "done"
    /\ \E y1, y2 \in Years :
          /\ TwoPeriods("c1", "Elementary", y1, y2)
          /\ PeriodRatio("c1", "Elementary", y1) # PeriodRatio("c1", "Elementary", y2)
          /\ W("c1", y1, "Managers") # W("c1", y2, "Managers")
          /\ RatioRow("c1", "Elementary").wage_ratio
                # RatioOfMeans2("c1", "Elementary", y1, y2)

-----------------------------------------------------------------------------
(* Quantities of the estimation data (eff_labor, rgdpna, rnna, hc).  The   *)
(* estimator takes logarithms, so a positive quantity is written by its    *)
(* natural logarithm: QExp(n) is e^n.  QZero is 0, QInf is inf and QNaN is *)
(* a missing value.                                                        *)

QExp(n) == <<"exp", n>>
QZero   == <<"zero", 0>>
QInf    == <<"inf", 0>>
QNaN    == <<"nan", 0>>

QMul(a, b) ==
    IF a = QNaN \/ b = QNaN THEN QNaN
    ELSE IF a = QZero THEN (IF b = QInf THEN QNaN ELSE QZero)
    ELSE IF b = QZero THEN (IF a = QInf THEN QNaN ELSE QZero)
    ELSE IF a = QInf \/ b = QInf THEN QInf
    ELSE QExp(a[2] + b[2])

QDiv(a, b) ==
    IF a = QNaN \/ b = QNaN THEN QNaN
    ELSE IF a = QZero THEN (IF b = QZero THEN QNaN ELSE QZero)
    ELSE IF a = QInf THEN (IF b = QInf THEN QNaN ELSE QInf)
    ELSE IF b = QZero THEN QInf
    ELSE IF b = QInf THEN QZero
    ELSE QExp(a[2] - b[2])

\* np.log
QLog(q) ==
    IF q = QNaN THEN NaN
    ELSE IF q = QZero THEN NegInf
    ELSE IF q = QInf THEN PosInf
    ELSE Num(q[2])

\* np.log(row[col] / (row["eff_labor"] * row["hc"]))
LogPerLeff(row, col) == QLog(QDiv(row[col], QMul(row.eff_labor, row.hc)))

-----------------------------------------------------------------------------
(* np.linalg.lstsq(X, y, rcond=None)[0] for X = [1, x1, x2]: the solution  *)
(* of the normal equations when X has rank 3, the least-squares solution   *)
(* of minimum norm (the one in the row space of X) when it has not.        *)

Det3(a, b, c, d, e, f, g, h, i) ==
    RAdd(RSub(RMul(a, RSub(RMul(e, i), RMul(f, h))),
              RMul(b, RSub(RMul(d, i), RMul(f, g)))),
         RMul(c, RSub(RMul(d, h), RMul(e, g))))

Dot3(u, v) == RAdd(RAdd(RMul(u[1], v[1]), RMul(u[2], v[2])), RMul(u[3], v[3]))

Lstsq2(x1, x2, ys) ==
    LET n   == Num(Len(ys))
        S1  == RSum(x1)
        S2  == RSum(x2)
        S11 == RSum(Products(x1, x1))
        S12 == RSum(Products(x1, x2))
        S22 == RSum(Products(x2, x2))
        Sy  == RSum(ys)
        S1y == RSum(Products(x1, ys))
        S2y == RSum(Products(x2, ys))
        det == Det3(n, S1, S2, S1, S11, S12, S2, S12, S22)
        row(i) == <<Num(1), x1[i], x2[i]>>
    IN  IF det # Num(0)
        THEN <<RDiv(Det3(Sy, S1, S2, S1y, S11, S12, S2y, S12, S22), det),
               RDiv(Det3(n, Sy, S2, S1, S1y, S12, S2, S2y, S22), det),
               RDiv(Det3(n, S1, Sy, S1, S11, S1y, S2, S12, S2y), det)>>
        ELSE IF \A i \in DOMAIN ys : row(i) = row(1)
        THEN LET u == row(1)
                 b == RDiv(RDiv(Sy, n), Dot3(u, u))
             IN  <<RMul(b, u[1]), RMul(b, u[2]), RMul(b, u[3])>>
        ELSE LET u  == row(1)
                 v  == row(CHOOSE j \in DOMAIN ys :
                              /\ row(j) # u
                              /\ \A k \in 1..(j - 1) : row(k) = u)
                 zu == [i \in DOMAIN ys |-> Dot3(row(i), u)]
                 zv == [i \in DOMAIN ys |-> Dot3(row(i), v)]
                 Auu == RSum(Products(zu, zu))
                 Auv == RSum(Products(zu, zv))
                 Avv == RSum(Products(zv, zv))
                 ru  == RSum(Products(zu, ys))
                 rv  == RSum(Products(zv, ys))
                 d2  == RSub(RMul(Auu, Avv), RMul(Auv, Auv))
                 sc  == RDiv(RSub(RMul(ru, Avv), RMul(rv, Auv)), d2)
                 tc  == RDiv(RSub(RMul(Auu, rv), RMul(Auv, ru)), d2)
             IN  <<RAdd(RMul(sc, u[1]), RMul(tc, v[1])),
                   RAdd(RMul(sc, u[2]), RMul(tc, v[2])),
                   RAdd(RMul(sc, u[3]), RMul(tc, v[3]))>>

Predict2(beta, a, b) == RAdd(beta[1], RAdd(RMul(beta[2], a), RMul(beta[3], b)))

\* np.clip(x, lo, hi)
clip(x, lo, hi) == IF RLt(x, lo) THEN lo ELSE IF RLt(hi, x) THEN hi ELSE x

-----------------------------------------------------------------------------
(* pipeline.estimate_alphas and pipeline.impute_alphas.  The estimation    *)
(* data is a sequence of rows (country, year, eff_labor, rgdpna, rnna,     *)
(* hc); an alpha table is a sequence of rows (country, alpha).             *)

MIN_OBS            == 3
MIN_ENTITIES       == 10
DEFAULT_MEAN_ALPHA == Rat(33, 100)
CLIP_LO            == Rat(1, 100)
CLIP_HI            == Rat(99, 100)

RECURSIVE Filter(_, _)
\* the subsequence of the rows whose index is in keep
Filter(rows, keep) ==
    IF rows = <<>> THEN <<>>
    ELSE Filter(SubSeq(rows, 1, Len(rows) - 1), keep)
         \o (IF Len(rows) \in keep THEN <<rows[Len(rows)]>> ELSE <<>>)

RECURSIVE Unique(_)
\* Series.unique(): the values in order of first appearance
Unique(s) ==
    IF s = <<>> THEN <<>>
    ELSE LET u == Unique(SubSeq(s, 1, Len(s) - 1))
         IN  IF \E i \in DOMAIN u : u[i] = s[Len(s)] THEN u ELSE Append(u, s[Len(s)])

Range(s) == {s[i] : i \in DOMAIN s}
CountriesOf(rows) == [i \in DOMAIN rows |-> rows[i].country]
RowsOfCountry(rows, c) == Filter(rows, {i \in DOMAIN rows : rows[i].country = c})

\* the OLS slope of ln_y on ln_k over the finite observations of a country
OLSAlpha(est, country) ==
    LET country_data == RowsOfCountry(est, country)
        ln_y  == [i \in DOMAIN country_data |-> LogPerLeff(country_data[i], "rgdpna")]
        ln_k  == [i \in DOMAIN country_data |-> LogPerLeff(country_data[i], "rnna")]
        valid == {i \in DOMAIN country_data : isfinite(ln_y[i]) /\ isfinite(ln_k[i])}
    IN  Lstsq1(Filter(ln_k, valid), Filter(ln_y, valid))[2]

\* the number of observations of a country with finite ln_y and ln_k
ValidObs(est, country) ==
    LET country_data == RowsOfCountry(est, country)
    IN  Cardinality({i \in DOMAIN country_data :
            /\ isfinite(LogPerLeff(country_data[i], "rgdpna"))
            /\ isfinite(LogPerLeff(country_data[i], "rnna"))})

\* the loop body with the test 0 < alpha < 1 left out
EstimateCountry_NoRangeCheck(est, country) ==
    IF Len(RowsOfCountry(est, country)) < MIN_OBS THEN <<>>
    ELSE IF ValidObs(est, country) < MIN_OBS THEN <<>>
    ELSE <<[country |-> country, alpha |-> OLSAlpha(est, country)]>>

\* the loop body that counts every observation of the country towards the 3
EstimateCountry_CountAllRows(est, country) ==
    IF Len(RowsOfCountry(est, country)) < MIN_OBS THEN <<>>
    ELSE LET alpha == OLSAlpha(est, country)
         IN  IF RLt(Num(0), alpha) /\ RLt(alpha, Num(1))
             THEN <<[country |-> country, alpha |-> alpha]>>
             ELSE <<>>

\* the body of the loop of estimate_alphas for one country: <<>> or one row
EstimateCountry(est, country) ==
    IF Len(RowsOfCountry(est, country)) < MIN_OBS THEN <<>>
    ELSE IF ValidObs(est, country) < MIN_OBS THEN <<>>
    ELSE LET alpha == OLSAlpha(est, country)
         IN  IF RLt(Num(0), alpha) /\ RLt(alpha, Num(1))
             THEN <<[country |-> country, alpha |-> alpha]>>
             ELSE <<>>

RECURSIVE EstimateEach(_, _)
EstimateEach(est, countries) ==
    IF countries = <<>> THEN <<>>
    ELSE EstimateCountry(est, Head(countries)) \o EstimateEach(est, Tail(countries))

\* the alphas table returned by estimate_alphas
estimate_alphas(est) == EstimateEach(est, Unique(CountriesOf(est)))

AlphaCol(tbl) == [i \in DOMAIN tbl |-> tbl[i].alpha]

\* the mean_alpha returned by estimate_alphas
MeanAlpha(tbl) == IF Len(tbl) > 0 THEN mean(AlphaCol(tbl)) ELSE DEFAULT_MEAN_ALPHA

\* est_data.groupby("country").apply(...): the mean ln_y and ln_k of a country
country_chars(est, c) ==
    LET g == RowsOfCountry(est, c)
    IN  [country |-> c,
         ln_y |-> mean([i \in DOMAIN g |-> LogPerLeff(g[i], "rgdpna")]),
         ln_k |-> mean([i \in DOMAIN g |-> LogPerLeff(g[i], "rnna")])]

\* pd.DataFrame({"country": cs, "alpha": [mean_alpha] * len(cs)})
Fallback(cs, mean_a) == [i \in DOMAIN cs |-> [country |-> cs[i], alpha |-> mean_a]]

Ok(rows)  == [raised |-> FALSE, rows |-> rows]
Raised    == [raised |-> TRUE, rows |-> <<>>]

impute_alphas(tbl, est, mean_a) ==
    LET all_countries == Unique(CountriesOf(est))
        estimated_countries == Range(CountriesOf(tbl))
        missing_countries == Filter(all_countries,
            {i \in DOMAIN all_countries : all_countries[i] \notin estimated_countries})
        chars(c) == country_chars(est, c)
        \* alphas.merge(country_chars).dropna(subset=["alpha", "ln_y", "ln_k"])
        valid_data == Filter(tbl, {i \in DOMAIN tbl :
                          /\ notna(tbl[i].alpha)
                          /\ notna(chars(tbl[i].country).ln_y)
                          /\ notna(chars(tbl[i].country).ln_k)})
        valid_mask == {i \in DOMAIN valid_data :
                          /\ isfinite(chars(valid_data[i].country).ln_y)
                          /\ isfinite(chars(valid_data[i].country).ln_k)
                          /\ isfinite(valid_data[i].alpha)}
        fit  == Filter(valid_data, valid_mask)
        beta == Lstsq2([i \in DOMAIN fit |-> chars(fit[i].country).ln_y],
                       [i \in DOMAIN fit |-> chars(fit[i].country).ln_k],
                       AlphaCol(fit))
        missing_chars == Filter(missing_countries,
            {i \in DOMAIN missing_countries :
                /\ isfinite(chars(missing_countries[i]).ln_y)
                /\ isfinite(chars(missing_countries[i]).ln_k)})
        imputed_rows == [i \in DOMAIN missing_chars |->
            [country |-> missing_chars[i],
             alpha |-> clip(Predict2(beta, chars(missing_chars[i]).ln_y,
                                           chars(missing_chars[i]).ln_k),
                            CLIP_LO, CLIP_HI)]]
        remaining == Filter(missing_countries,
            {i \in DOMAIN missing_countries :
                missing_countries[i] \notin Range(missing_chars)})
    IN  IF Len(missing_countries) = 0 THEN Ok(tbl)
        \* pd.DataFrame([]) has no "country" column: alphas.merge(on="country")
        \* raises KeyError
        ELSE IF tbl = <<>> THEN Raised
        ELSE IF Len(valid_data) >= MIN_ENTITIES
        THEN IF Len(fit) < MIN_ENTITIES
             THEN Ok(tbl \o Fallback(missing_countries, mean_a))
             \* lstsq raises LinAlgError on non-finite input only, and fit is finite
             ELSE Ok(tbl \o imputed_rows \o Fallback(remaining, mean_a))
        ELSE Ok(tbl \o Fallback(missing_countries, mean_a))

-----------------------------------------------------------------------------
(* reproduction: Estimator.estimate and its four steps.  cfg is the     *)
(* "estimation" section: alpha_min, alpha_max, imputation_method.          *)

\* Estimator._prepare_estimation_data (the data has rgdpna, rnna and hc)
prepare_estimation_data(data) ==
    LET kept == Filter(data, {i \in DOMAIN data :
                    /\ data[i].rgdpna # QNaN /\ data[i].rnna # QNaN
                    /\ data[i].eff_labor # QNaN /\ data[i].hc # QNaN})
        logs == [i \in DOMAIN kept |->
                    [country |-> kept[i].country, year |-> kept[i].year,
                     ln_y |-> LogPerLeff(kept[i], "rgdpna"),
                     ln_k |-> LogPerLeff(kept[i], "rnna")]]
    IN  \* df.replace([inf, -inf], nan).dropna(subset=["ln_y", "ln_k"])
        Filter(logs, {i \in DOMAIN logs : isfinite(logs[i].ln_y) /\ isfinite(logs[i].ln_k)})

\* the body of the loop of Estimator._estimate_country_alphas
EstimateCountryRaw(data, country) ==
    LET country_data == RowsOfCountry(data, country)
    IN  IF Len(country_data) < MIN_OBS THEN <<>>
        ELSE <<[country |-> country,
                alpha_raw |-> Lstsq1([i \in DOMAIN country_data |-> country_data[i].ln_k],
                                     [i \in DOMAIN country_data |-> country_data[i].ln_y])[2],
                n_obs |-> Len(country_data)]>>

RECURSIVE EstimateEachRaw(_, _)
EstimateEachRaw(data, countries) ==
    IF countries = <<>> THEN <<>>
    ELSE EstimateCountryRaw(data, Head(countries)) \o EstimateEachRaw(data, Tail(countries))

estimate_country_alphas(data) == EstimateEachRaw(data, Unique(CountriesOf(data)))

\* one row of Estimator._filter_valid_alphas
FilterRow(r, cfg) ==
    LET alpha_valid == RLt(cfg.alpha_min, r.alpha_raw) /\ RLt(r.alpha_raw, cfg.alpha_max)
    IN  [country |-> r.country, alpha_raw |-> r.alpha_raw, n_obs |-> r.n_obs,
         alpha_valid |-> alpha_valid,
         alpha |-> IF alpha_valid THEN r.alpha_raw ELSE NaN]

\* Estimator._filter_valid_alphas; pd.DataFrame([])["alpha_raw"] raises KeyError
filter_valid_alphas(tbl, cfg) ==
    IF tbl = <<>> THEN Raised
    ELSE Ok([i \in DOMAIN tbl |-> FilterRow(tbl[i], cfg)])

\* Estimator._impute_missing_alphas
impute_missing_alphas(tbl, est, cfg) ==
    LET missing_mask == {i \in DOMAIN tbl : isna(tbl[i].alpha)}
        mean_a   == mean(AlphaCol(tbl))
        chars(c) ==
            LET g == RowsOfCountry(est, c)
            IN  [ln_y |-> mean([i \in DOMAIN g |-> g[i].ln_y]),
                 ln_k |-> mean([i \in DOMAIN g |-> g[i].ln_k])]
        valid_data == Filter(tbl, {i \in DOMAIN tbl \ missing_mask :
                          /\ notna(tbl[i].alpha_raw)
                          /\ notna(chars(tbl[i].country).ln_y)
                          /\ notna(chars(tbl[i].country).ln_k)})
        beta == Lstsq2([i \in DOMAIN valid_data |-> chars(valid_data[i].country).ln_y],
                       [i \in DOMAIN valid_data |-> chars(valid_data[i].country).ln_k],
                       AlphaCol(valid_data))
        fill(v(_)) == [i \in DOMAIN tbl |->
                          IF i \in missing_mask THEN [tbl[i] EXCEPT !.alpha = v(i)]
                          ELSE tbl[i]]
        mean_of(i) == mean_a
        predicted(i) == clip(Predict2(beta, chars(tbl[i].country).ln_y,
                                            chars(tbl[i].country).ln_k),
                             CLIP_LO, CLIP_HI)
    IN  IF missing_mask = {} THEN tbl
        ELSE IF cfg.imputation_method = "mean" THEN fill(mean_of)
        ELSE IF cfg.imputation_method = "regression"
        THEN IF Len(valid_data) >= MIN_ENTITIES THEN fill(predicted) ELSE fill(mean_of)
        ELSE tbl

-----------------------------------------------------------------------------
(* Estimation data.  A country's rows follow one of the profiles below;    *)
(* the data has nBase countries cycling through the first baseKinds        *)
(* profiles (accepted alphas 1/2, 1/3, 1/4 with affinely independent mean  *)
(* ln_y, ln_k), followed by up to MaxExtra countries of any other profile. *)

MaxBase  == 11
MaxExtra == 2

\* a row without its country: year, eff_labor, rgdpna, rnna, hc
Obs(y, l, gdp, k, h) == [year |-> y, eff_labor |-> l, rgdpna |-> gdp, rnna |-> k, hc |-> h]

Profile(p) ==
    CASE p = 1 ->  \* alpha 1/2, mean ln_y 0, mean ln_k 0
           <<Obs(1, QExp(0), QExp(-1), QExp(-2), QExp(0)),
             Obs(2, QExp(0), QExp(0), QExp(0), QExp(0)),
             Obs(3, QExp(0), QExp(1), QExp(2), QExp(0))>>
      [] p = 2 ->  \* alpha 1/3, mean ln_y 1, mean ln_k 0
           <<Obs(1, QExp(1), QExp(1), QExp(-2), QExp(0)),
             Obs(2, QExp(1), QExp(2), QExp(1), QExp(0)),
             Obs(3, QExp(1), QExp(3), QExp(4), QExp(0))>>
      [] p = 3 ->  \* alpha 1/4, mean ln_y 0, mean ln_k 1
           <<Obs(1, QExp(0), QExp(0), QExp(-2), QExp(1)),
             Obs(2, QExp(0), QExp(1), QExp(2), QExp(1)),
             Obs(3, QExp(0), QExp(2), QExp(6), QExp(1))>>
      [] p = 4 ->  \* slope 2, mean ln_y 0, mean ln_k 4
           <<Obs(1, QExp(0), QExp(-2), QExp(3), QExp(0)),
             Obs(2, QExp(0), QExp(0), QExp(4), QExp(0)),
             Obs(3, QExp(0), QExp(2), QExp(5), QExp(0))>>
      [] p = 5 ->  \* slope -1, mean ln_y -4, mean ln_k 0
           <<Obs(1, QExp(0), QExp(-3), QExp(-1), QExp(0)),
             Obs(2, QExp(0), QExp(-4), QExp(0), QExp(0)),
             Obs(3, QExp(0), QExp(-5), QExp(1), QExp(0))>>
      [] p = 6 ->  \* two observations
           <<Obs(1, QExp(0), QExp(0), QExp(0), QExp(0)),
             Obs(2, QExp(0), QExp(1), QExp(2), QExp(0))>>
      [] p = 7 ->  \* alpha 1/2 and a year of zero output
           <<Obs(1, QExp(0), QExp(-1), QExp(-2), QExp(0)),
             Obs(2, QExp(0), QExp(0), QExp(0), QExp(0)),
             Obs(3, QExp(0), QExp(1), QExp(2), QExp(0)),
             Obs(4, QExp(0), QZero, QExp(1), QExp(0))>>
      [] p = 8 ->  \* three observations, one of zero output
           <<Obs(1, QExp(0), QExp(0), QExp(0), QExp(0)),
             Obs(2, QExp(0), QExp(1), QExp(2), QExp(0)),
             Obs(3, QExp(0), QZero, QExp(1), QExp(0))>>
      [] p = 9 ->  \* the same ln_k in every period
           <<Obs(1, QExp(0), QExp(1), QExp(2), QExp(0)),
             Obs(2, QExp(0), QExp(2), QExp(2), QExp(0)),
             Obs(3, QExp(0), QExp(3), QExp(2), QExp(0))>>
      [] p = 10 -> \* slope 1
           <<Obs(1, QExp(0), QExp(-1), QExp(-1), QExp(0)),
             Obs(2, QExp(0), QExp(0), QExp(0), QExp(0)),
             Obs(3, QExp(0), QExp(1), QExp(1), QExp(0))>>
      [] OTHER ->  \* three observations, one with output missing
           <<Obs(1, QExp(0), QExp(0), QExp(0), QExp(0)),
             Obs(2, QExp(0), QExp(1), QExp(2), QExp(0)),
             Obs(3, QExp(0), QNaN, QExp(1), QExp(0))>>

BaseProfiles  == 1..3
ExtraProfiles == 4..11

CountryRows(c, p) ==
    [i \in DOMAIN Profile(p) |->
        [country |-> c, year |-> Profile(p)[i].year,
         eff_labor |-> Profile(p)[i].eff_labor, rgdpna |-> Profile(p)[i].rgdpna,
         rnna |-> Profile(p)[i].rnna, hc |-> Profile(p)[i].hc]]

RECURSIVE Concat(_)
Concat(ss) == IF ss = <<>> THEN <<>> ELSE Head(ss) \o Concat(Tail(ss))

\* the sequences of n distinct elements of S in increasing order
RECURSIVE IncreasingSeqs(_, _)
IncreasingSeqs(n, S) ==
    IF n = 0 THEN {<<>>}
    ELSE UNION {{<<v>> \o t : t \in IncreasingSeqs(n - 1, {w \in S : w > v})} : v \in S}

\* the numbers of base countries: few, or about MIN_ENTITIES
BaseCounts == {0, 1} \cup ((MIN_ENTITIES - 1)..MaxBase)

\* the profiles of the countries 1, 2, ...
ProfileLists ==
    {[i \in 1..n |-> ((i - 1) % kinds) + 1] \o extra :
        n \in BaseCounts, kinds \in BaseProfiles,
        extra \in UNION {IncreasingSeqs(m, ExtraProfiles) : m \in 0..MaxExtra}}

EstData(profiles) == Concat([c \in DOMAIN profiles |-> CountryRows(c, profiles[c])])

DefaultConfig == [alpha_min |-> Num(0), alpha_max |-> Num(1), imputation_method |-> "mean"]

Configs ==
    {DefaultConfig,
     [alpha_min |-> Num(0), alpha_max |-> Num(1), imputation_method |-> "regression"],
     [alpha_min |-> Rat(1, 4), alpha_max |-> Rat(3, 4), imputation_method |-> "regression"]}

\* est_data.dropna(subset=["eff_labor", "rgdpna", "rnna", "hc"]) of estimate_chip
dropna_alpha_required(est) ==
    Filter(est, {i \in DOMAIN est :
        /\ est[i].eff_labor # QNaN /\ est[i].rgdpna # QNaN
        /\ est[i].rnna # QNaN /\ est[i].hc # QNaN})

AlphaInit ==
    /\ pcA = "input"
    /\ engine \in {"workbench", "reproduction"}
    /\ estimation \in (IF engine = "workbench" THEN {DefaultConfig} ELSE Configs)
    /\ est_data \in {EstData(p) : p \in ProfileLists}
    /\ prepared = <<>>
    /\ alphas_est = <<>>
    /\ mean_alpha = NaN
    /\ alphas = <<>>

\* estimate_chip: est_data_for_alpha, then estimate_alphas
EstimateAlphas ==
    /\ engine = "workbench" /\ pcA = "input"
    /\ prepared' = dropna_alpha_required(est_data)
    /\ alphas_est' = estimate_alphas(prepared')
    /\ mean_alpha' = MeanAlpha(alphas_est')
    /\ pcA' = "estimated"
    /\ UNCHANGED <<engine, estimation, est_data, alphas, varsI, varsW, varsG, varsR, varsC, varsL, varsP>>

\* estimate_chip with enable_imputation: impute_alphas
ImputeAlphas ==
    /\ engine = "workbench" /\ pcA = "estimated"
    /\ LET r == impute_alphas(alphas_est, prepared, mean_alpha)
       IN  /\ alphas' = r.rows
           /\ pcA' = IF r.raised THEN "raised" ELSE "imputed"
    /\ UNCHANGED <<engine, estimation, est_data, prepared, alphas_est, mean_alpha,
                   varsI, varsW, varsG, varsR, varsC, varsL, varsP>>

\* Estimator.estimate: _prepare_estimation_data
EstimatorPrepare ==
    /\ engine = "reproduction" /\ pcA = "input"
    /\ prepared' = prepare_estimation_data(est_data)
    /\ pcA' = "prepared"
    /\ UNCHANGED <<engine, estimation, est_data, alphas_est, mean_alpha, alphas,
                   varsI, varsW, varsG, varsR, varsC, varsL, varsP>>

\* Estimator.estimate: _estimate_country_alphas
EstimatorEstimateCountryAlphas ==
    /\ engine = "reproduction" /\ pcA = "prepared"
    /\ alphas_est' = estimate_country_alphas(prepared)
    /\ pcA' = "estimated"
    /\ UNCHANGED <<engine, estimation, est_data, prepared, mean_alpha, alphas,
                   varsI, varsW, varsG, varsR, varsC, varsL, varsP>>

\* Estimator.estimate: _filter_valid_alphas
EstimatorFilterValidAlphas ==
    /\ engine = "reproduction" /\ pcA = "estimated"
    /\ LET r == filter_valid_alphas(alphas_est, estimation)
       IN  /\ alphas' = r.rows
           /\ pcA' = IF r.raised THEN "raised" ELSE "filtered"
    /\ UNCHANGED <<engine, estimation, est_data, prepared, alphas_est, mean_alpha,
                   varsI, varsW, varsG, varsR, varsC, varsL, varsP>>

\* Estimator.estimate: _impute_missing_alphas
EstimatorImputeMissingAlphas ==
    /\ engine = "reproduction" /\ pcA = "filtered"
    /\ alphas' = impute_missing_alphas(alphas, prepared, estimation)
    /\ pcA' = "imputed"
    /\ UNCHANGED <<engine, estimation, est_data, prepared, alphas_est, mean_alpha,
                   varsI, varsW, varsG, varsR, varsC, varsL, varsP>>

AlphaNext ==
    \/ EstimateAlphas
    \/ ImputeAlphas
    \/ EstimatorPrepare
    \/ EstimatorEstimateCountryAlphas
    \/ EstimatorFilterValidAlphas
    \/ EstimatorImputeMissingAlphas

InitAlpha == AlphaInit /\ IdleI /\ IdleW /\ IdleG /\ IdleR /\ IdleC /\ IdleL /\ IdleP

SpecAlpha == InitAlpha /\ [][AlphaNext]_vars

InOpen(x, lo, hi) == isfinite(x) /\ RLt(lo, x) /\ RLt(x, hi)

Workbench(pcs)    == engine = "workbench" /\ pcA \in pcs
Reproduction(pcs) == engine = "reproduction" /\ pcA \in pcs

\* the countries of the alpha-estimation data
AlphaCountries == Range(CountriesOf(prepared))

\* the countries with a row in the table of direct estimates
Estimated == Range(CountriesOf(alphas_est))

\* C2: an alpha estimate that is <= 0, >= 1 or non-finite is never retained
\* as a direct alpha.  Every row returned by estimate_alphas holds the OLS
\* estimate of its country and that estimate lies strictly inside (0, 1); a
\* country whose estimate is rejected has no row.  Every row marked
\* alpha_valid by _filter_valid_alphas has alpha = alpha_raw strictly inside
\* (alpha_min, alpha_max), and every other row has alpha NaN after the filter.
C2_InvalidAlphaNeverRetained ==
    /\ Workbench({"estimated", "imputed", "raised"}) =>
         /\ \A i \in DOMAIN alphas_est :
              /\ alphas_est[i].alpha = OLSAlpha(prepared, alphas_est[i].country)
              /\ InOpen(alphas_est[i].alpha, Num(0), Num(1))
         /\ \A c \in AlphaCountries :
              (/\ ValidObs(prepared, c) >= MIN_OBS
               /\ ~InOpen(OLSAlpha(prepared, c), Num(0), Num(1))) => c \notin Estimated
    /\ Reproduction({"filtered", "imputed"}) =>
         \A i \in DOMAIN alphas :
            /\ alphas[i].alpha_valid <=>
                 InOpen(alphas[i].alpha_raw, estimation.alpha_min, estimation.alpha_max)
            /\ alphas[i].alpha_valid => alphas[i].alpha = alphas[i].alpha_raw
            /\ (pcA = "filtered" /\ ~alphas[i].alpha_valid) => isna(alphas[i].alpha)

\* an estimate of 1 or more is rejected by the filter next to an accepted one
C2_Witness ==
    /\ Reproduction({"filtered"})
    /\ \E i, j \in DOMAIN alphas :
         /\ RLe(Num(1), alphas[i].alpha_raw) /\ ~alphas[i].alpha_valid
         /\ isna(alphas[i].alpha)
         /\ alphas[j].alpha_valid

\* the countries of the alpha-estimation data without a direct alpha
Lacking == AlphaCountries \ Estimated

FiniteChars(c) ==
    /\ isfinite(country_chars(prepared, c).ln_y)
    /\ isfinite(country_chars(prepared, c).ln_k)

\* the rows with an accepted alpha and finite characteristics
FitRows == Filter(alphas_est, {i \in DOMAIN alphas_est : FiniteChars(alphas_est[i].country)})

AlphaRows(c) == {i \in DOMAIN alphas : alphas[i].country = c}

\* every country lacking an accepted alpha has a row holding its due fallback
DueFallbacks ==
    LET fit  == FitRows
        beta == Lstsq2([i \in DOMAIN fit |-> country_chars(prepared, fit[i].country).ln_y],
                       [i \in DOMAIN fit |-> country_chars(prepared, fit[i].country).ln_k],
                       AlphaCol(fit))
        SecondStage(c) ==
            clip(Predict2(beta, country_chars(prepared, c).ln_y,
                                country_chars(prepared, c).ln_k),
                 CLIP_LO, CLIP_HI)
    IN  \A c \in Lacking :
            \E i \in AlphaRows(c) :
                alphas[i].alpha =
                    IF Len(fit) >= MIN_ENTITIES /\ FiniteChars(c)
                    THEN SecondStage(c)
                    ELSE mean_alpha

\* C3: once impute_alphas has run, every country lacking an accepted alpha
\* has received the second-stage regression prediction when at least 10
\* countries have an accepted alpha and finite characteristics and its own
\* characteristics are finite, and the cross-entity mean otherwise.
C3_FallbackPriority == Workbench({"imputed", "raised"}) => DueFallbacks

\* C3 where impute_alphas returns
C3_FallbackPriorityOnReturn == Workbench({"imputed"}) => DueFallbacks

\* C10: after impute_alphas every country of the alpha-estimation data has
\* exactly one alpha row, and the alpha of a directly estimated country is
\* the estimated one.
C10_OneAlphaPerCountry ==
    Workbench({"imputed", "raised"}) =>
        /\ \A c \in AlphaCountries : Cardinality(AlphaRows(c)) = 1
        /\ \A j \in DOMAIN alphas_est :
             \E i \in DOMAIN alphas : alphas[i] = alphas_est[j]

\* C10 where impute_alphas returns
C10_OneAlphaPerCountryOnReturn ==
    Workbench({"imputed"}) =>
        /\ \A c \in AlphaCountries : Cardinality(AlphaRows(c)) = 1
        /\ \A j \in DOMAIN alphas_est :
             \E i \in DOMAIN alphas : alphas[i] = alphas_est[j]

-----------------------------------------------------------------------------
(* workbench/lib/aggregate.py.  A DataFrame is a record (columns, rows);   *)
(* a row has a field for every column the model knows, and the field of a  *)
(* column the frame does not have is NoColumn.                             *)

NoColumn == <<0, -1>>
None     == <<0, -2>>

HasColumns(frame, cs) == cs \subseteq frame.columns

\* df.dropna(subset=cs): the rows with every column of cs observed
dropna(frame, cs) ==
    Filter(frame.rows, {i \in DOMAIN frame.rows : \A c \in cs : notna(frame.rows[i][c])})

\* r sorts before q under sort_values("contribution", ascending=False): NaN last
SortsBefore(r, q) == notna(r.contribution) /\ (isna(q.contribution) \/ RLt(q.contribution, r.contribution))

\* r put into a sorted sequence behind the rows it does not sort before
Insert(sorted, r) ==
    LET k == Cardinality({i \in DOMAIN sorted : ~SortsBefore(r, sorted[i])})
    IN  SubSeq(sorted, 1, k) \o <<r>> \o SubSeq(sorted, k + 1, Len(sorted))

RECURSIVE sort_values(_)
\* contributions.sort_values("contribution", ascending=False): ties keep their order
sort_values(rows) ==
    IF rows = <<>> THEN <<>>
    ELSE Insert(sort_values(SubSeq(rows, 1, Len(rows) - 1)), rows[Len(rows)])

ColumnOf(rows, c) == [i \in DOMAIN rows |-> rows[i][c]]

Raise(e) == [raised |-> TRUE, error |-> e]

AggregateResult(chip_value, weighting_scheme, contributions, n_countries, metadata) ==
    [raised |-> FALSE, chip_value |-> chip_value, weighting_scheme |-> weighting_scheme,
     contributions |-> contributions, n_countries |-> n_countries, metadata |-> metadata]

\* the weights left as the raw measure, not divided by the total
measure_weighted_Unnormalised(frame, col, name) ==
    IF ~HasColumns(frame, {"chip_value", col}) THEN Raise("ValueError")
    ELSE LET d == dropna(frame, {"chip_value", col})
             total == sum(ColumnOf(d, col))
             contributions == sort_values(
                 [i \in DOMAIN d |->
                     [country |-> d[i].country, chip_value |-> d[i].chip_value,
                      measure |-> d[i][col], weight |-> d[i][col],
                      contribution |-> RMul(d[i].chip_value, d[i][col])]])
         IN  IF contributions = <<>> THEN Raise("IndexError")
             ELSE AggregateResult(sum(ColumnOf(contributions, "contribution")), name,
                     contributions, Len(d),
                     [stat |-> total, top_contributor |-> contributions[1].country,
                      top_contribution_pct |-> RMul(contributions[1].weight, Num(100))])

\* the common body of gdp_weighted, labor_weighted and hdi_weighted
measure_weighted(frame, col, name) ==
    IF ~HasColumns(frame, {"chip_value", col}) THEN Raise("ValueError")
    ELSE LET d == dropna(frame, {"chip_value", col})
             total == sum(ColumnOf(d, col))
             contributions == sort_values(
                 [i \in DOMAIN d |->
                     [country |-> d[i].country, chip_value |-> d[i].chip_value,
                      measure |-> d[i][col], weight |-> RDiv(d[i][col], total),
                      contribution |-> RMul(d[i].chip_value, RDiv(d[i][col], total))]])
             \* total_gdp, total_labor; mean_hdi for hdi_weighted
             stat == IF name = "hdi_weighted" THEN mean(ColumnOf(d, col)) ELSE total
         \* contributions.iloc[0] of an empty frame raises IndexError
         IN  IF contributions = <<>> THEN Raise("IndexError")
             ELSE AggregateResult(sum(ColumnOf(contributions, "contribution")), name,
                     contributions, Len(d),
                     [stat |-> stat, top_contributor |-> contributions[1].country,
                      top_contribution_pct |-> RMul(contributions[1].weight, Num(100))])

gdp_weighted(frame)   == measure_weighted(frame, "gdp", "gdp_weighted")
labor_weighted(frame) == measure_weighted(frame, "employment", "labor_weighted")
hdi_weighted(frame)   == measure_weighted(frame, "hdi", "hdi_weighted")

\* df["raw_weight"] = df[gdp_col] * (df[freedom_col] / 100.0)
raw_weight(r) == RMul(r.gdp, RDiv(r.freedom_score, Num(100)))

freedom_weighted(frame) ==
    IF ~HasColumns(frame, {"chip_value", "freedom_score", "gdp"}) THEN Raise("ValueError")
    ELSE LET d == dropna(frame, {"chip_value", "freedom_score", "gdp"})
             total_weight == sum([i \in DOMAIN d |-> raw_weight(d[i])])
             contributions == sort_values(
                 [i \in DOMAIN d |->
                     [country |-> d[i].country, chip_value |-> d[i].chip_value,
                      measure |-> d[i].gdp, freedom_score |-> d[i].freedom_score,
                      weight |-> RDiv(raw_weight(d[i]), total_weight),
                      contribution |-> RMul(d[i].chip_value,
                                            RDiv(raw_weight(d[i]), total_weight))]])
         IN  IF contributions = <<>> THEN Raise("IndexError")
             ELSE AggregateResult(sum(ColumnOf(contributions, "contribution")),
                     "freedom_weighted", contributions, Len(d),
                     [stat |-> mean(ColumnOf(d, "freedom_score")),
                      top_contributor |-> contributions[1].country,
                      top_contribution_pct |-> RMul(contributions[1].weight, Num(100))])

\* an unweighted that counts the entities before it drops the unobserved ones
unweighted_CountAllRows(frame) ==
    IF ~HasColumns(frame, {"chip_value"}) THEN Raise("ValueError")
    ELSE LET d == dropna(frame, {"chip_value"})
             n == Len(frame.rows)
             contributions == sort_values(
                 [i \in DOMAIN d |->
                     [country |-> d[i].country, chip_value |-> d[i].chip_value,
                      weight |-> Rat(1, n),
                      contribution |-> RMul(d[i].chip_value, Rat(1, n))]])
         IN  IF n = 0 THEN Raise("ZeroDivisionError")
             ELSE AggregateResult(RSum(ColumnOf(contributions, "contribution")),
                     "unweighted", contributions, n, <<>>)

\* the chip_std of the metadata is not modelled
unweighted(frame) ==
    IF ~HasColumns(frame, {"chip_value"}) THEN Raise("ValueError")
    ELSE LET d == dropna(frame, {"chip_value"})
             n == Len(d)
             contributions == sort_values(
                 [i \in DOMAIN d |->
                     [country |-> d[i].country, chip_value |-> d[i].chip_value,
                      weight |-> Rat(1, n),
                      contribution |-> RMul(d[i].chip_value, Rat(1, n))]])
         \* 1.0 / n with the int n = 0
         IN  IF n = 0 THEN Raise("ZeroDivisionError")
             ELSE AggregateResult(mean(ColumnOf(d, "chip_value")), "unweighted",
                     contributions, n,
                     [chip_min |-> contributions[n].chip_value,
                      chip_max |-> contributions[1].chip_value])

Schemes == {"unweighted", "gdp_weighted", "labor_weighted", "freedom_weighted", "hdi_weighted"}

Apply(s, frame) ==
    CASE s = "unweighted"       -> unweighted(frame)
      [] s = "gdp_weighted"     -> gdp_weighted(frame)
      [] s = "labor_weighted"   -> labor_weighted(frame)
      [] s = "freedom_weighted" -> freedom_weighted(frame)
      [] OTHER                  -> hdi_weighted(frame)

\* the report row of compare_weightings for one scheme
CompareRow(s, r) ==
    IF r.raised
    THEN [scheme |-> s, chip_value |-> None, n_countries |-> NaN, notes |-> r.error]
    ELSE [scheme |-> r.weighting_scheme, chip_value |-> r.chip_value,
          n_countries |-> Num(r.n_countries), notes |-> ""]

\* the column compare_weightings looks for before it tries a scheme
CompareColumn(s) ==
    CASE s = "gdp_weighted"     -> {"gdp"}
      [] s = "labor_weighted"   -> {"employment"}
      [] s = "freedom_weighted" -> {"freedom_score"}
      [] s = "hdi_weighted"     -> {"hdi"}
      [] OTHER                  -> {}

CompareOrder == <<"unweighted", "gdp_weighted", "labor_weighted", "freedom_weighted",
                  "hdi_weighted">>

RECURSIVE CompareFrom_AbortOnFailure(_, _)
CompareFrom_AbortOnFailure(frame, order) ==
    IF order = <<>> THEN <<>>
    ELSE IF ~HasColumns(frame, CompareColumn(Head(order)))
    THEN CompareFrom_AbortOnFailure(frame, Tail(order))
    ELSE IF Apply(Head(order), frame).raised
    THEN <<CompareRow(Head(order), Apply(Head(order), frame))>>
    ELSE <<CompareRow(Head(order), Apply(Head(order), frame))>>
         \o CompareFrom_AbortOnFailure(frame, Tail(order))

\* one try block around all the schemes: the first failure ends the comparison
compare_weightings_AbortOnFailure(frame) == CompareFrom_AbortOnFailure(frame, CompareOrder)

RECURSIVE CompareFrom(_, _)
CompareFrom(frame, order) ==
    IF order = <<>> THEN <<>>
    ELSE (IF HasColumns(frame, CompareColumn(Head(order)))
          THEN <<CompareRow(Head(order), Apply(Head(order), frame))>>
          ELSE <<>>)
         \o CompareFrom(frame, Tail(order))

compare_weightings(frame) == CompareFrom(frame, CompareOrder)

\* the condition of run_all_weightings under which a scheme is tried
RunTried(s, frame) ==
    CASE s = "labor_weighted" -> HasColumns(frame, {"employment"})
      [] s = "freedom_weighted" ->
            /\ HasColumns(frame, {"freedom_score"})
            /\ \E i \in DOMAIN frame.rows : notna(frame.rows[i].freedom_score)
      [] s = "hdi_weighted" ->
            /\ HasColumns(frame, {"hdi"})
            /\ \E i \in DOMAIN frame.rows : notna(frame.rows[i].hdi)
      [] OTHER -> TRUE

RunOrder == <<"gdp_weighted", "labor_weighted", "unweighted", "freedom_weighted",
              "hdi_weighted">>

\* the dict returned by run_all_weightings
run_all_weightings(frame) ==
    [s \in {t \in Schemes : RunTried(t, frame) /\ ~Apply(t, frame).raised} |-> Apply(s, frame)]

RECURSIVE RunWarnings(_, _)
\* the warnings run_all_weightings logs
RunWarnings(frame, order) ==
    IF order = <<>> THEN <<>>
    ELSE (IF ~RunTried(Head(order), frame) THEN <<<<"skipping", Head(order)>>>>
          ELSE IF Apply(Head(order), frame).raised THEN <<<<"failed", Head(order)>>>>
          ELSE <<>>)
         \o RunWarnings(frame, Tail(order))

(* Country tables: up to NCountries rows, chip_value missing or in         *)
(* 1..MaxChip, gdp missing or in 0..MaxGdp.  The gdp column may be absent; *)
(* employment is absent or 1 everywhere, hdi is unobserved or 1            *)
(* everywhere, freedom_score is absent, unobserved, 0 or 50 everywhere.    *)

MaxChip    == 2
MaxGdp     == 1
NCountries == 2

NAggKinds == (MaxChip + 1) * (MaxGdp + 2)
ChipOf(k) == CellOf((k - 1) \div (MaxGdp + 2))
GdpOf(k)  == LET c == (k - 1) % (MaxGdp + 2) IN IF c = 0 THEN NaN ELSE Num(c - 1)

Layouts ==
    [gdp : BOOLEAN, employment : {"absent", "ones"}, hdi : {"unobserved", "ones"},
     freedom_score : {"absent", "unobserved", "zero", "fifty"}]

ModeValue(m) ==
    CASE m = "absent"     -> NoColumn
      [] m = "unobserved" -> NaN
      [] m = "zero"       -> Num(0)
      [] m = "ones"       -> Num(1)
      [] OTHER            -> Num(50)

FrameOf(kinds, lay) ==
    [columns |-> {"country", "chip_value", "hdi"}
                 \cup (IF lay.gdp THEN {"gdp"} ELSE {})
                 \cup (IF lay.employment # "absent" THEN {"employment"} ELSE {})
                 \cup (IF lay.freedom_score # "absent" THEN {"freedom_score"} ELSE {}),
     rows |-> [i \in DOMAIN kinds |->
                 [country |-> i, chip_value |-> ChipOf(kinds[i]),
                  gdp |-> IF lay.gdp THEN GdpOf(kinds[i]) ELSE NoColumn,
                  employment |-> ModeValue(lay.employment),
                  hdi |-> ModeValue(lay.hdi),
                  freedom_score |-> ModeValue(lay.freedom_score)]]]

AggFrames ==
    {FrameOf(kinds, lay) :
        kinds \in UNION {SortedSeqs(n, 1, NAggKinds) : n \in 0..NCountries},
        lay \in Layouts}

AggInit ==
    /\ pcG = "input"
    /\ caller = "none"
    /\ country_df \in AggFrames
    /\ out = <<>>
    /\ logG = <<>>

\* one scheme of aggregate.py called on the table
CallScheme ==
    /\ pcG = "input"
    /\ \E s \in Schemes :
         /\ caller' = s
         /\ out' = Apply(s, country_df)
    /\ pcG' = "done"
    /\ UNCHANGED <<country_df, logG, varsI, varsW, varsA, varsR, varsC, varsL, varsP>>

CompareWeightings ==
    /\ pcG = "input"
    /\ caller' = "compare_weightings"
    /\ out' = compare_weightings(country_df)
    /\ pcG' = "done"
    /\ UNCHANGED <<country_df, logG, varsI, varsW, varsA, varsR, varsC, varsL, varsP>>

RunAllWeightings ==
    /\ pcG = "input"
    /\ caller' = "run_all_weightings"
    /\ out' = run_all_weightings(country_df)
    /\ logG' = RunWarnings(country_df, RunOrder)
    /\ pcG' = "done"
    /\ UNCHANGED <<country_df, varsI, varsW, varsA, varsR, varsC, varsL, varsP>>

RECURSIVE Reverse(_)
Reverse(rows) == IF rows = <<>> THEN <<>> ELSE Reverse(Tail(rows)) \o <<Head(rows)>>

\* a scheme that reorders the rows of the caller's table in place
FrameAfterCall_Reordered(s, frame) == [columns |-> frame.columns, rows |-> Reverse(frame.rows)]

\* the caller's table after a scheme has run: every scheme works on df.copy()
\* and on the frames that dropna returns, so the table is as it was
FrameAfterCall(s, frame) == frame

\* one scheme called twice on the same table
CallSchemeTwice ==
    /\ pcG = "input"
    /\ \E s \in Schemes :
         /\ caller' = s
         /\ out' = <<Apply(s, country_df), Apply(s, FrameAfterCall(s, country_df))>>
         /\ country_df' = FrameAfterCall(s, FrameAfterCall(s, country_df))
    /\ pcG' = "twice"
    /\ UNCHANGED <<logG, varsI, varsW, varsA, varsR, varsC, varsL, varsP>>

\* pipeline.gdp_weighted_chip(country_data): the sums skip the missing values,
\* no row is dropped
gdp_weighted_chip(frame) ==
    IF ~HasColumns(frame, {"chip_value", "gdp"}) THEN Raise("KeyError")
    ELSE LET total_gdp == sum(ColumnOf(frame.rows, "gdp"))
         IN  [raised |-> FALSE,
              chip_value |-> sum([i \in DOMAIN frame.rows |->
                                    RMul(frame.rows[i].chip_value,
                                         RDiv(frame.rows[i].gdp, total_gdp))])]

\* chip_value = gdp_weighted_chip(country_data)
GdpWeightedChip ==
    /\ pcG = "input"
    /\ caller' = "gdp_weighted_chip"
    /\ out' = gdp_weighted_chip(country_df)
    /\ pcG' = "done"
    /\ UNCHANGED <<country_df, logG, varsI, varsW, varsA, varsR, varsC, varsL, varsP>>

AggNext ==
    \/ CallScheme
    \/ CompareWeightings
    \/ RunAllWeightings
    \/ CallSchemeTwice
    \/ GdpWeightedChip

InitAgg == AggInit /\ IdleI /\ IdleW /\ IdleA /\ IdleR /\ IdleC /\ IdleL /\ IdleP

SpecAgg == InitAgg /\ [][AggNext]_vars

Weighted == Schemes \ {"unweighted"}

\* the columns a weighted scheme needs observed
Required(s) ==
    CASE s = "gdp_weighted"     -> {"chip_value", "gdp"}
      [] s = "labor_weighted"   -> {"chip_value", "employment"}
      [] s = "freedom_weighted" -> {"chip_value", "freedom_score", "gdp"}
      [] s = "hdi_weighted"     -> {"chip_value", "hdi"}
      [] OTHER                  -> {"chip_value"}

\* the weighting measure of a row under a scheme
Measure(s, r) ==
    CASE s = "gdp_weighted"     -> r.gdp
      [] s = "labor_weighted"   -> r.employment
      [] s = "freedom_weighted" -> RDiv(RMul(r.gdp, r.freedom_score), Num(100))
      [] OTHER                  -> r.hdi

\* the entities a scheme includes: those with the chip value and the measure observed
Included(s, frame) == dropna(frame, Required(s))

SchemeDone(ss) == pcG = "done" /\ caller \in ss

\* C5: for gdp_weighted, labor_weighted, hdi_weighted and freedom_weighted,
\* when an included entity has a positive measure the scheme returns, the
\* contributions table lists exactly the included entities, every weight is
\* measure / sum of measures, the weights sum to 1, every contribution is
\* chip_value * weight, and the returned chip_value is the sum of the
\* contributions.
C5_WeightsSumToOne ==
    SchemeDone(Weighted) =>
        LET inc   == Included(caller, country_df)
            total == RSum([i \in DOMAIN inc |-> Measure(caller, inc[i])])
        IN  (/\ HasColumns(country_df, Required(caller))
             /\ \E i \in DOMAIN inc : RLt(Num(0), Measure(caller, inc[i])))
            => /\ ~out.raised
               /\ Len(out.contributions) = Len(inc)
               /\ out.n_countries = Len(inc)
               /\ \A i \in DOMAIN inc :
                    \E j \in DOMAIN out.contributions :
                        /\ out.contributions[j].country = inc[i].country
                        /\ out.contributions[j].weight = RDiv(Measure(caller, inc[i]), total)
                        /\ out.contributions[j].contribution =
                               RMul(inc[i].chip_value, out.contributions[j].weight)
               /\ RSum(ColumnOf(out.contributions, "weight")) = Num(1)
               /\ out.chip_value = RSum(ColumnOf(out.contributions, "contribution"))

\* a weighted scheme has returned for two included entities with different
\* chip values and positive measures
C5_Witness ==
    /\ SchemeDone({"gdp_weighted", "freedom_weighted"})
    /\ HasColumns(country_df, Required(caller))
    /\ ~out.raised
    /\ \E i, j \in DOMAIN out.contributions :
         /\ out.contributions[i].chip_value # out.contributions[j].chip_value
         /\ RLt(Num(0), out.contributions[i].weight)
         /\ RLt(Num(0), out.contributions[j].weight)

\* C6: when the measure of a weighted scheme sums to zero over the included
\* entities, the scheme fails (raises) and returns no value.
C6_ZeroSumFails ==
    SchemeDone(Weighted) =>
        LET inc == Included(caller, country_df)
        IN  (/\ HasColumns(country_df, Required(caller))
             /\ RSum([i \in DOMAIN inc |-> Measure(caller, inc[i])]) = Num(0))
            => out.raised

\* C8: in compare_weightings and run_all_weightings every scheme that is
\* tried is reported with the value the scheme computes on the table by
\* itself, whichever other schemes fail, and a scheme has no value only
\* when it is not tried or fails itself.
C8_SchemeFailuresIndependent ==
    /\ SchemeDone({"compare_weightings"}) =>
         \A s \in Schemes :
            LET rows_s == {i \in DOMAIN out : out[i].scheme = s}
                r      == Apply(s, country_df)
            IN  IF HasColumns(country_df, CompareColumn(s))
                THEN /\ Cardinality(rows_s) = 1
                     /\ \A i \in rows_s :
                          out[i].chip_value = IF r.raised THEN None ELSE r.chip_value
                ELSE rows_s = {}
    /\ SchemeDone({"run_all_weightings"}) =>
         \A s \in Schemes :
            IF RunTried(s, country_df) /\ ~Apply(s, country_df).raised
            THEN s \in DOMAIN out /\ out[s] = Apply(s, country_df)
            ELSE s \notin DOMAIN out

\* compare_weightings reports a failed scheme and, after it, a scheme with a value
C8_Witness ==
    /\ SchemeDone({"compare_weightings"})
    /\ \E i, j \in DOMAIN out :
         /\ i < j
         /\ out[i].chip_value = None
         /\ out[j].chip_value # None

\* the number of entities a scheme drops from a table
NDropped(s, frame) == Len(frame.rows) - Len(Included(s, frame))

\* C9: the number of entities a scheme dropped for missing data can be read
\* from the result it returns: two tables with the same result have the same
\* number of dropped entities.
C9_DropsCountedInOutput ==
    (SchemeDone(Schemes) /\ ~out.raised) =>
        \A f \in AggFrames :
            Apply(caller, f) = out => NDropped(caller, f) = NDropped(caller, country_df)

-----------------------------------------------------------------------------
(* reproduction: Aggregator._calculate_weights and _weighted_average, as   *)
(* Aggregator.aggregate calls them on the country-level table, and the     *)
(* per-year aggregate_by_year of the timeseries study.  A log record is    *)
(* <<level, message>>.                                                     *)

Warning(msg) == <<"warning", msg>>
Error(msg)   == <<"error", msg>>

\* the columns and rows of a frame with a column of the values vals added
WithColumn(frame, col, vals) ==
    [columns |-> frame.columns \cup {col},
     rows |-> [i \in DOMAIN frame.rows |-> [frame.rows[i] EXCEPT ![col] = vals[i]]]]

\* Aggregator._calculate_weights on a table with rows: the table with its weights
WeightsOf(frame) ==
    LET n == Len(frame.rows)
        gdp_col == IF "rgdpna" \in frame.columns THEN "rgdpna" ELSE "cgdpo"
        total_gdp == sum(ColumnOf(frame.rows, gdp_col))
        total_labor == sum(ColumnOf(frame.rows, "labor_hours"))
        labor_productivity == [i \in DOMAIN frame.rows |->
                                  RDiv(frame.rows[i].rgdpna, frame.rows[i].labor_hours)]
        total_lprod == sum(labor_productivity)
        weight_gdp == [i \in DOMAIN frame.rows |->
                          IF gdp_col \in frame.columns
                          THEN RDiv(frame.rows[i][gdp_col], total_gdp)
                          ELSE Rat(1, n)]
        weight_labor == [i \in DOMAIN frame.rows |->
                            IF "labor_hours" \in frame.columns
                            THEN RDiv(frame.rows[i].labor_hours, total_labor)
                            ELSE Rat(1, n)]
        weight_unweighted == [i \in DOMAIN frame.rows |-> Rat(1, n)]
        weight_productivity == [i \in DOMAIN frame.rows |->
                                   RDiv(labor_productivity[i], total_lprod)]
        w3 == WithColumn(WithColumn(WithColumn(frame, "weight_gdp", weight_gdp),
                                    "weight_labor", weight_labor),
                         "weight_unweighted", weight_unweighted)
    IN  IF {"rgdpna", "labor_hours"} \subseteq frame.columns
        THEN WithColumn(w3, "weight_productivity", weight_productivity)
        ELSE w3

\* the records _calculate_weights logs
WeightsLog(frame) ==
    IF "rgdpna" \notin frame.columns /\ "cgdpo" \notin frame.columns
    THEN <<Warning("No GDP column found; using equal weights")>>
    ELSE <<>>

\* Aggregator._calculate_weights; 1 / len(df) raises on a table without rows
calculate_weights(frame) ==
    IF Len(frame.rows) = 0
    THEN [raised |-> TRUE, frame |-> frame, log |-> WeightsLog(frame)]
    ELSE [raised |-> FALSE, frame |-> WeightsOf(frame), log |-> WeightsLog(frame)]

\* Aggregator._weighted_average: the value returned and the records logged
weighted_average(frame, weight_col) ==
    LET valid == dropna(frame, {"adjusted_wage", weight_col})
        total == sum(ColumnOf(valid, weight_col))
    IN  IF weight_col \notin frame.columns
        THEN [value |-> mean(ColumnOf(frame.rows, "adjusted_wage")),
              log |-> <<Warning("Weight column not found; using equal weights")>>]
        ELSE IF Len(valid) = 0
        THEN [value |-> Num(0), log |-> <<Error("No valid observations for aggregation")>>]
        ELSE [value |-> sum([i \in DOMAIN valid |->
                            RMul(valid[i].adjusted_wage, RDiv(valid[i][weight_col], total))]),
              log |-> <<>>]

WeightColumn(w) ==
    CASE w = "gdp"        -> "weight_gdp"
      [] w = "labor"      -> "weight_labor"
      [] w = "unweighted" -> "weight_unweighted"
      [] OTHER            -> "weight_productivity"

\* the rows of one year
YearRows(frame, y) == Filter(frame.rows, {i \in DOMAIN frame.rows : frame.rows[i].year = y})

\* the chip of one year in aggregate_by_year
YearChip(ydf, w) ==
    LET col   == IF w = "gdp" THEN "rgdpna" ELSE "eff_labor"
        total == sum(ColumnOf(ydf, col))
    IN  IF w = "unweighted" THEN mean(ColumnOf(ydf, "chip_value"))
        ELSE IF RLt(Num(0), total)
        THEN sum([i \in DOMAIN ydf |-> RMul(ydf[i].chip_value, RDiv(ydf[i][col], total))])
        ELSE mean(ColumnOf(ydf, "chip_value"))

YearsR == {1, 2}

\* aggregate_by_year: one row per year with rows, in the order of the years;
\* chip_median and chip_std are not modelled.  sort_values("year") raises
\* KeyError on the frame without columns that no rows give.
aggregate_by_year(frame, w) ==
    LET years == {y \in YearsR : YearRows(frame, y) # <<>>}
        row(y) == LET ydf == YearRows(frame, y)
                  IN  [year |-> y, chip_value |-> YearChip(ydf, w),
                       n_countries |-> Len(ydf),
                       chip_mean |-> mean(ColumnOf(ydf, "chip_value")),
                       mean_elem_wage |-> mean(ColumnOf(ydf, "elementary_wage")),
                       mean_theta |-> mean(ColumnOf(ydf, "theta"))]
    IN  IF years = {} THEN [raised |-> TRUE, rows |-> <<>>]
        ELSE [raised |-> FALSE,
              rows |-> [k \in 1..Cardinality(years) |->
                          row(CHOOSE y \in years : Cardinality({z \in years : z <= y}) = k)]]

(* Tables of the Aggregator: rows of adjusted_wage and a GDP measure as    *)
(* the (chip, gdp) rows above, the measure in the column rgdpna or cgdpo,  *)
(* or in no column; labor_hours absent, 0 or 1 everywhere.  Tables of      *)
(* aggregate_by_year: rows of (year, chip_value, rgdpna); eff_labor 0 or 1 *)
(* everywhere, elementary_wage and theta 1.                                *)

AggregatorFrame(kinds, gdp_col, labor) ==
    [columns |-> {"country", "adjusted_wage"}
                 \cup (IF gdp_col # "none" THEN {gdp_col} ELSE {})
                 \cup (IF labor # "absent" THEN {"labor_hours"} ELSE {}),
     rows |-> [i \in DOMAIN kinds |->
                 [country |-> i, adjusted_wage |-> ChipOf(kinds[i]),
                  rgdpna |-> IF gdp_col = "rgdpna" THEN GdpOf(kinds[i]) ELSE NoColumn,
                  cgdpo |-> IF gdp_col = "cgdpo" THEN GdpOf(kinds[i]) ELSE NoColumn,
                  labor_hours |-> ModeValue(labor),
                  weight_gdp |-> NoColumn, weight_labor |-> NoColumn,
                  weight_unweighted |-> NoColumn, weight_productivity |-> NoColumn]]]

AggregatorFrames ==
    {AggregatorFrame(kinds, gdp_col, labor) :
        kinds \in UNION {SortedSeqs(n, 1, NAggKinds) : n \in 0..NCountries},
        gdp_col \in {"rgdpna", "cgdpo", "none"},
        labor \in {"absent", "zero", "ones"}}

YearFrame(kinds, labor) ==
    [columns |-> {"country", "year", "chip_value", "rgdpna", "eff_labor",
                  "elementary_wage", "theta"},
     rows |-> [i \in DOMAIN kinds |->
                 [country |-> i, year |-> ((kinds[i] - 1) % 2) + 1,
                  chip_value |-> ChipOf(((kinds[i] - 1) \div 2) + 1),
                  rgdpna |-> GdpOf(((kinds[i] - 1) \div 2) + 1),
                  eff_labor |-> ModeValue(labor),
                  elementary_wage |-> Num(1), theta |-> Num(1)]]]

YearFrames ==
    {YearFrame(kinds, labor) :
        kinds \in UNION {SortedSeqs(n, 1, 2 * NAggKinds) : n \in 0..NCountries},
        labor \in {"zero", "ones"}}

IsAggregator == "adjusted_wage" \in agg_data.columns
IsTimeseries == "year" \in agg_data.columns

ReproInit ==
    /\ pcR = "input"
    /\ \/ agg_data \in AggregatorFrames
          /\ weighting \in {"gdp", "labor", "unweighted", "productivity"}
       \/ agg_data \in YearFrames
          /\ weighting \in {"gdp", "labor", "unweighted"}
    /\ chip = <<>>
    /\ logR = <<>>

\* Aggregator.aggregate: country_data = self._calculate_weights(country_data)
CalculateWeights ==
    /\ pcR = "input" /\ IsAggregator
    /\ LET r == calculate_weights(agg_data)
       IN  /\ agg_data' = r.frame
           /\ logR' = logR \o r.log
           /\ pcR' = IF r.raised THEN "raised" ELSE "weighted"
    /\ UNCHANGED <<weighting, chip, varsI, varsW, varsA, varsG, varsC, varsL, varsP>>

\* Aggregator.aggregate: results["chip_" + primary_weight] = self._weighted_average(...)
WeightedAverage ==
    /\ pcR = "weighted" /\ IsAggregator
    /\ LET r == weighted_average(agg_data, WeightColumn(weighting))
       IN  /\ chip' = [value |-> r.value, n_countries |-> Len(agg_data.rows)]
           /\ logR' = logR \o r.log
    /\ pcR' = "done"
    /\ UNCHANGED <<weighting, agg_data, varsI, varsW, varsA, varsG, varsC, varsL, varsP>>

AggregateByYear ==
    /\ pcR = "input" /\ IsTimeseries
    /\ LET r == aggregate_by_year(agg_data, weighting)
       IN  /\ chip' = r.rows
           /\ pcR' = IF r.raised THEN "raised" ELSE "done"
    /\ UNCHANGED <<weighting, agg_data, logR, varsI, varsW, varsA, varsG, varsC, varsL, varsP>>

ReproNext == CalculateWeights \/ WeightedAverage \/ AggregateByYear

InitRepro == ReproInit /\ IdleI /\ IdleW /\ IdleA /\ IdleG /\ IdleC /\ IdleL /\ IdleP

SpecRepro == InitRepro /\ [][ReproNext]_vars

\* the measure columns the requested weighting needs
RequestedColumns(w) ==
    CASE w = "gdp"          -> {"rgdpna"}
      [] w = "labor"        -> {"labor_hours"}
      [] w = "productivity" -> {"rgdpna", "labor_hours"}
      [] OTHER              -> {}

\* the Aggregator has put equal weights or the plain mean in the place of
\* the requested weighting
AggregatorFellBack ==
    /\ IsAggregator /\ pcR \in {"weighted", "done"}
    /\ \/ weighting = "gdp" /\ "rgdpna" \notin agg_data.columns
                            /\ "cgdpo" \notin agg_data.columns
       \/ weighting = "labor" /\ "labor_hours" \notin agg_data.columns
       \/ pcR = "done" /\ WeightColumn(weighting) \notin agg_data.columns

\* aggregate_by_year has used the plain mean for a year under a weighted scheme
ByYearFellBack ==
    /\ IsTimeseries /\ pcR = "done" /\ weighting \in {"gdp", "labor"}
    /\ \E y \in YearsR :
         /\ YearRows(agg_data, y) # <<>>
         /\ ~RLt(Num(0), sum(ColumnOf(YearRows(agg_data, y),
                                      IF weighting = "gdp" THEN "rgdpna" ELSE "eff_labor")))

HasWarning == \E i \in DOMAIN logR : logR[i][1] = "warning"

\* C7: whenever the Aggregator or aggregate_by_year has fallen back to equal
\* weights or to the plain mean in the place of the requested weighting, a
\* warning has been recorded.
C7_NoSilentEqualWeights == (AggregatorFellBack \/ ByYearFellBack) => HasWarning

\* C7 for the fallbacks of the Aggregator that do warn: no GDP column, no weight column
C7_WarnedFallbacks ==
    (/\ IsAggregator /\ pcR \in {"weighted", "done"}
     /\ \/ "rgdpna" \notin agg_data.columns /\ "cgdpo" \notin agg_data.columns
        \/ pcR = "done" /\ WeightColumn(weighting) \notin agg_data.columns)
    => HasWarning

-----------------------------------------------------------------------------
(* Degenerate fits.  np.linalg.lstsq does not raise on a rank-deficient    *)
(* design matrix: it returns the minimum-norm solution (Lstsq1, Lstsq2).   *)

\* the rows norm_predict trains on for a target: target and predictor observed
TrainRows(d, target) ==
    {i \in DOMAIN d : \A c \in Cols : notna(d[i][c])}

\* the rows norm_predict predicts for a target: target missing, predictor observed
PredRows(d, target) ==
    {i \in DOMAIN d : isna(d[i][target]) /\ \A c \in Cols \ {target} : notna(d[i][c])}

\* the design matrix [1, x] of the fit for a target has rank 1: the predictor
\* takes one value on the training rows
SingularDesign(d, target) ==
    /\ Cardinality(TrainRows(d, target)) >= MIN_TRAIN
    /\ \A i, j \in TrainRows(d, target) :
          \A c \in Cols \ {target} : d[i][c] = d[j][c]

\* C11: when the design matrix of the regression inside norm_predict is
\* singular (at least MIN_TRAIN training rows, all with the same predictor
\* value), every missing value of the first target is the mean of the
\* target's observed values (the mean-fallback path), never a prediction
\* from the coefficients of the degenerate fit.
C11_SingularFitFallsBack ==
    pcI = "done" =>
        LET t == Head(target_cols)
        IN  SingularDesign(df, t) =>
                \A i \in DOMAIN df :
                    isna(df[i][t]) => imputed[i][t] = mean(Column(df, t))

\* the valid ln_k of a country, in estimate_alphas
ValidLnK(est, country) ==
    LET country_data == RowsOfCountry(est, country)
    IN  {LogPerLeff(country_data[i], "rnna") : i \in
            {j \in DOMAIN country_data :
                /\ isfinite(LogPerLeff(country_data[j], "rgdpna"))
                /\ isfinite(LogPerLeff(country_data[j], "rnna"))}}

\* C11 for estimate_alphas: no alpha is retained from the fit of a country
\* whose ln(capital / L_eff) is identical in every period.
C11_DegenerateAlphaNotRetained ==
    Workbench({"estimated"}) =>
        \A c \in Estimated : Cardinality(ValidLnK(prepared, c)) > 1

-----------------------------------------------------------------------------
(* The CHIP pipeline of workbench/lib/pipeline.py: the end of              *)
(* prepare_labor_data (average wage, elementary wage, merge with PWT) and  *)
(* estimate_chip (alphas, MPL, distortion factor, adjusted wage).          *)
(*                                                                         *)
(* The MPL is a power with a fractional exponent.  A value c * e^x, c an   *)
(* extended rational and x a rational, is the pair <<c, x>>; x is 0 when c *)
(* is 0, infinite or NaN.  Products and quotients of such values are       *)
(* exact.  Wages are rationals, the quantities of the production function  *)
(* are powers of e (QExp).                                                 *)

ENum(c, x) == IF isfinite(c) /\ c # Num(0) THEN <<c, x>> ELSE <<c, Num(0)>>
EMul(a, b) == ENum(RMul(a[1], b[1]), RAdd(a[2], b[2]))
EDiv(a, b) == ENum(RDiv(a[1], b[1]), RSub(a[2], b[2]))
ENaN       == ENum(NaN, Num(0))

\* np.power(q, a) for a finite exponent a or a missing one
QPow(q, a) ==
    IF a = Num(0) THEN ENum(Num(1), Num(0))
    ELSE IF isna(a) \/ q = QNaN THEN ENaN
    ELSE IF q = QZero THEN ENum(IF RLt(Num(0), a) THEN Num(0) ELSE PosInf, Num(0))
    ELSE IF q = QInf THEN ENum(IF RLt(Num(0), a) THEN PosInf ELSE Num(0), Num(0))
    ELSE ENum(Num(1), RMul(a, Num(q[2])))

\* the rows of a table with a key (country, year)
KeyRows(rows, c, y) ==
    Filter(rows, {i \in DOMAIN rows : rows[i].country = c /\ rows[i].year = y})

KeysOf(rows) == [i \in DOMAIN rows |-> <<rows[i].country, rows[i].year>>]

\* calculate_average_wage(labor_df, method="simple"): one row per (country, year)
calculate_average_wage(labor) ==
    {[country |-> k[1], year |-> k[2],
      aw_wage |-> mean(ColumnOf(KeyRows(labor, k[1], k[2]), "wage"))] :
        k \in Range(KeysOf(labor))}

\* a get_elementary_wage that takes the wage of the reference category
get_elementary_wage_Managers(labor) ==
    LET managers == Filter(labor, {i \in DOMAIN labor : labor[i].occupation = "Managers"})
    IN  {[country |-> k[1], year |-> k[2],
          elementary_wage |-> mean(ColumnOf(KeyRows(managers, k[1], k[2]), "wage"))] :
            k \in Range(KeysOf(managers))}

\* get_elementary_wage(labor_df): one row per (country, year) with an Elementary row
get_elementary_wage(labor) ==
    LET elementary == Filter(labor, {i \in DOMAIN labor : labor[i].occupation = "Elementary"})
    IN  {[country |-> k[1], year |-> k[2],
          elementary_wage |-> mean(ColumnOf(KeyRows(elementary, k[1], k[2]), "wage"))] :
            k \in Range(KeysOf(elementary))}

\* the value of a column that a left merge on (country, year) gives a row
LeftValue(table, c, y, col) ==
    IF \E t \in table : t.country = c /\ t.year = y
    THEN (CHOOSE t \in table : t.country = c /\ t.year = y)[col]
    ELSE NaN

\* prepare_labor_data: est_data = eff_labor merged with aw_wage and elem_wage
\* (how="left") and with pwt (merge_with_pwt, how="inner")
merge_est_data(eff, labor, pwt) ==
    LET aw_wage   == calculate_average_wage(labor)
        elem_wage == get_elementary_wage(labor)
    IN  Concat([i \in DOMAIN eff |->
            LET m == KeyRows(pwt, eff[i].country, eff[i].year)
            IN  [j \in DOMAIN m |->
                    [country |-> eff[i].country, year |-> eff[i].year,
                     eff_labor |-> eff[i].eff_labor,
                     aw_wage |-> LeftValue(aw_wage, eff[i].country, eff[i].year, "aw_wage"),
                     elementary_wage |-> LeftValue(elem_wage, eff[i].country, eff[i].year,
                                                   "elementary_wage"),
                     rgdpna |-> m[j].rgdpna, rnna |-> m[j].rnna, hc |-> m[j].hc]]])

\* estimate_chip: impute_alphas when the imputation is enabled
AlphasFor(tbl, est_data_for_alpha, enable) ==
    IF enable THEN impute_alphas(tbl, est_data_for_alpha, MeanAlpha(tbl)) ELSE Ok(tbl)

\* estimate_chip: the alphas table that is merged into est_data
chip_alphas(est, enable) ==
    AlphasFor(estimate_alphas(dropna_alpha_required(est)), dropna_alpha_required(est), enable)

\* est_data.merge(alphas[["country", "alpha"]], on="country", how="left")
merge_alphas(est, tbl) ==
    Concat([i \in DOMAIN est |->
        LET m == RowsOfCountry(tbl, est[i].country)
            row(a) == [country |-> est[i].country, year |-> est[i].year,
                       eff_labor |-> est[i].eff_labor, aw_wage |-> est[i].aw_wage,
                       elementary_wage |-> est[i].elementary_wage,
                       rgdpna |-> est[i].rgdpna, rnna |-> est[i].rnna, hc |-> est[i].hc,
                       alpha |-> a]
        IN  IF m = <<>> THEN <<row(NaN)>> ELSE [j \in DOMAIN m |-> row(m[j].alpha)]])

\* a dropna that does not require the alpha
dropna_wage_required_KeepNoAlpha(est) ==
    Filter(est, {i \in DOMAIN est :
        /\ est[i].eff_labor # QNaN /\ notna(est[i].aw_wage)
        /\ notna(est[i].elementary_wage)
        /\ est[i].rgdpna # QNaN /\ est[i].rnna # QNaN /\ est[i].hc # QNaN})

\* est_data.dropna(subset=wage_required)
dropna_wage_required(est) ==
    Filter(est, {i \in DOMAIN est :
        /\ est[i].eff_labor # QNaN /\ notna(est[i].aw_wage)
        /\ notna(est[i].elementary_wage)
        /\ est[i].rgdpna # QNaN /\ est[i].rnna # QNaN /\ est[i].hc # QNaN
        /\ notna(est[i].alpha)})

\* the row with the columns of calculate_mpl and calculate_chip
ChipRow(r, alpha, k_per_l_hc, mpl, theta, chip_value) ==
    [country |-> r.country, year |-> r.year, eff_labor |-> r.eff_labor,
     aw_wage |-> r.aw_wage, elementary_wage |-> r.elementary_wage,
     rgdpna |-> r.rgdpna, rnna |-> r.rnna, hc |-> r.hc,
     alpha |-> alpha, k_per_l_hc |-> k_per_l_hc, mpl |-> mpl,
     theta |-> theta, chip_value |-> chip_value]

\* a calculate_mpl that multiplies by hc after the exponentiation
calculate_mpl_HcOutside(rows, default_alpha) ==
    [i \in DOMAIN rows |->
        LET alpha == IF isna(rows[i].alpha) THEN default_alpha ELSE rows[i].alpha
            k_per_l == QDiv(rows[i].rnna, rows[i].eff_labor)
        IN  ChipRow(rows[i], alpha, QMul(k_per_l, rows[i].hc),
                    EMul(EMul(ENum(RSub(Num(1), alpha), Num(0)), QPow(k_per_l, alpha)),
                         QPow(rows[i].hc, Num(1))),
                    ENaN, ENaN)]

\* calculate_mpl(data, default_alpha)
calculate_mpl(rows, default_alpha) ==
    [i \in DOMAIN rows |->
        LET alpha == IF isna(rows[i].alpha) THEN default_alpha ELSE rows[i].alpha
            k_per_l_hc == QMul(QDiv(rows[i].rnna, rows[i].eff_labor), rows[i].hc)
        IN  ChipRow(rows[i], alpha, k_per_l_hc,
                    EMul(ENum(RSub(Num(1), alpha), Num(0)), QPow(k_per_l_hc, alpha)),
                    ENaN, ENaN)]

\* calculate_chip(est_data)
calculate_chip(rows) ==
    [i \in DOMAIN rows |->
        LET theta == EDiv(rows[i].mpl, ENum(rows[i].aw_wage, Num(0)))
        IN  ChipRow(rows[i], rows[i].alpha, rows[i].k_per_l_hc, rows[i].mpl, theta,
                    EMul(ENum(rows[i].elementary_wage, Num(0)), theta))]

ChipRaised == [raised |-> TRUE, est_data |-> <<>>]

\* estimate_chip after the alphas: merge, dropna, calculate_mpl, calculate_chip
ChipTable(est, a, mean_a) ==
    IF a.raised THEN ChipRaised
    \* pd.DataFrame([]) has no columns: alphas[["country", "alpha"]] raises KeyError
    ELSE IF a.rows = <<>> THEN ChipRaised
    ELSE [raised |-> FALSE,
          est_data |-> calculate_chip(calculate_mpl(
                           dropna_wage_required(merge_alphas(est, a.rows)), mean_a))]

\* estimate_chip(est_data, enable_imputation), up to est_data_with_chip
estimate_chip(est, enable) ==
    ChipTable(est, chip_alphas(est, enable),
              MeanAlpha(estimate_alphas(dropna_alpha_required(est))))

\* Estimator.estimate(data): prepare, estimate, filter, impute
EstimatorImputeFrom(f, est, cfg) ==
    IF f.raised THEN Raised ELSE Ok(impute_missing_alphas(f.rows, est, cfg))

EstimatorEstimateFrom(est, cfg) ==
    EstimatorImputeFrom(filter_valid_alphas(estimate_country_alphas(est), cfg), est, cfg)

estimator_estimate(data, cfg) == EstimatorEstimateFrom(prepare_estimation_data(data), cfg)

\* df.dropna(subset=["mpl", "distortion_factor", "adjusted_wage"])
dropna_mpl(rows) ==
    Filter(rows, {i \in DOMAIN rows :
        notna(rows[i].mpl[1]) /\ notna(rows[i].theta[1]) /\ notna(rows[i].chip_value[1])})

\* Estimator.calculate_mpl(data, alphas) after the merge of the alphas; the
\* columns effective_labor, wage_real, distortion_factor and adjusted_wage are
\* written eff_labor, aw_wage, theta and chip_value
EstimatorMplRows(rows) ==
    [i \in DOMAIN rows |->
        LET k_per_l_hc == QMul(QDiv(rows[i].rnna, rows[i].eff_labor), rows[i].hc)
            mpl == EMul(ENum(RSub(Num(1), rows[i].alpha), Num(0)),
                        QPow(k_per_l_hc, rows[i].alpha))
            distortion_factor == EDiv(mpl, ENum(rows[i].aw_wage, Num(0)))
        IN  ChipRow(rows[i], rows[i].alpha, k_per_l_hc, mpl, distortion_factor,
                    EMul(ENum(rows[i].elementary_wage, Num(0)), distortion_factor))]

\* Estimator.estimate(data), then Estimator.calculate_mpl(data, alphas)
estimator_calculate_mpl(data, a) ==
    IF a.raised THEN ChipRaised
    ELSE [raised |-> FALSE,
          est_data |-> dropna_mpl(EstimatorMplRows(merge_alphas(data, a.rows)))]

(* Inputs of the CHIP pipeline.  Country 1 has MIN_OBS..MaxYears years on  *)
(* the line ln_y = ln_k / 2 (alpha 1/2), with at most one hole: one        *)
(* attribute of one year is missing.  Country 2 is absent, or has three    *)
(* complete years with alpha 1/3 ("third") or with the slope 2, which is   *)
(* not an alpha ("steep").  Every country-year has a Managers wage and an  *)
(* Elementary wage in 1..MaxWage.                                          *)

MaxYears == 4

HoleKinds == {"eff_labor", "rgdpna", "rnna", "hc", "pwt_row", "elementary", "wages"}
NoHole    == <<0, "none">>
Holes(n)  == {NoHole} \cup {<<y, a>> : y \in 1..n, a \in HoleKinds}
Seconds   == {"none", "third", "steep"}

Holed(hole, y, a, q) == IF hole = <<y, a>> THEN QNaN ELSE q

EffRows1(n, hole) ==
    [y \in 1..n |-> [country |-> 1, year |-> y,
                     eff_labor |-> Holed(hole, y, "eff_labor", QExp(-1))]]

PwtRows1(n, hole) ==
    LET all == [y \in 1..n |->
                   [country |-> 1, year |-> y,
                    rgdpna |-> Holed(hole, y, "rgdpna", QExp(y - 2)),
                    rnna   |-> Holed(hole, y, "rnna", QExp(2 * (y - 2))),
                    hc     |-> Holed(hole, y, "hc", QExp(1))]]
    IN  Filter(all, {y \in 1..n : hole # <<y, "pwt_row">>})

EffRows2(second) ==
    IF second = "none" THEN <<>>
    ELSE [y \in 1..MIN_OBS |-> [country |-> 2, year |-> y, eff_labor |-> QExp(0)]]

PwtRows2(second) ==
    IF second = "none" THEN <<>>
    ELSE [y \in 1..MIN_OBS |->
             [country |-> 2, year |-> y,
              rgdpna |-> QExp(IF second = "third" THEN y - 1 ELSE 2 * (y - 2)),
              rnna   |-> QExp(IF second = "third" THEN 3 * (y - 2) ELSE y - 2),
              hc     |-> QExp(0)]]

WageRows(c, y, hole, mw, ew) ==
    IF c = 1 /\ hole = <<y, "wages">> THEN <<>>
    ELSE <<[country |-> c, year |-> y, occupation |-> "Managers", wage |-> Num(mw)]>>
         \o (IF c = 1 /\ hole = <<y, "elementary">> THEN <<>>
             ELSE <<[country |-> c, year |-> y, occupation |-> "Elementary",
                     wage |-> Num(ew)]>>)

LaborRows(n, hole, second, mw, ew) ==
    Concat([y \in 1..n |-> WageRows(1, y, hole, mw, ew)])
    \o (IF second = "none" THEN <<>>
        ELSE Concat([y \in 1..MIN_OBS |-> WageRows(2, y, hole, mw, ew)]))

ChipInit ==
    /\ pcC = "input"
    /\ \E n \in MIN_OBS..MaxYears, second \in Seconds, mw \in 1..MaxWage, ew \in 1..MaxWage :
          \E hole \in Holes(n) :
             /\ eff_labor_df = EffRows1(n, hole) \o EffRows2(second)
             /\ pwt_df = PwtRows1(n, hole) \o PwtRows2(second)
             /\ labor_with_wages = LaborRows(n, hole, second, mw, ew)
    /\ enable_imputation \in BOOLEAN
    /\ chip_data = <<>>
    /\ chip_out = <<>>

\* prepare_labor_data: the average and elementary wages and the merges
PrepareEstData ==
    /\ pcC = "input"
    /\ chip_data' = merge_est_data(eff_labor_df, labor_with_wages, pwt_df)
    /\ pcC' = "merged"
    /\ UNCHANGED <<labor_with_wages, eff_labor_df, pwt_df, enable_imputation, chip_out,
                   varsI, varsW, varsA, varsG, varsR, varsL, varsP>>

\* estimate_chip(est_data, enable_imputation)
EstimateChip ==
    /\ pcC = "merged"
    /\ chip_out' = estimate_chip(chip_data, enable_imputation)
    /\ pcC' = IF chip_out'.raised THEN "raised" ELSE "done"
    /\ UNCHANGED <<labor_with_wages, eff_labor_df, pwt_df, enable_imputation, chip_data,
                   varsI, varsW, varsA, varsG, varsR, varsL, varsP>>

\* the reproduction: Estimator.estimate and Estimator.calculate_mpl on the same data
EstimatorCalculateMpl ==
    /\ pcC = "merged"
    /\ chip_out' = estimator_calculate_mpl(chip_data,
                                           estimator_estimate(chip_data, DefaultConfig))
    /\ pcC' = IF chip_out'.raised THEN "raised" ELSE "estimator"
    /\ UNCHANGED <<labor_with_wages, eff_labor_df, pwt_df, enable_imputation, chip_data,
                   varsI, varsW, varsA, varsG, varsR, varsL, varsP>>

ChipNext == PrepareEstData \/ EstimateChip \/ EstimatorCalculateMpl

InitChip == ChipInit /\ IdleI /\ IdleW /\ IdleA /\ IdleG /\ IdleR /\ IdleL /\ IdleP

SpecChip == InitChip /\ [][ChipNext]_vars

\* the countries that have an alpha: an accepted estimate, or any estimation
\* data when the imputation is enabled
WithAlpha ==
    LET est == dropna_alpha_required(chip_data)
    IN  {c \in Range(CountriesOf(est)) :
            enable_imputation \/ EstimateCountry(est, c) # <<>>}

\* the entity-periods of est_data with every required attribute
CompleteRows ==
    Filter(chip_data, {i \in DOMAIN chip_data :
        /\ chip_data[i].eff_labor # QNaN /\ chip_data[i].rgdpna # QNaN
        /\ chip_data[i].rnna # QNaN /\ chip_data[i].hc # QNaN
        /\ notna(chip_data[i].aw_wage) /\ notna(chip_data[i].elementary_wage)
        /\ chip_data[i].country \in WithAlpha})

DistortionTableComplete == KeysOf(chip_out.est_data) = KeysOf(CompleteRows)

\* C12: estimate_chip does not abort, and its distortion table has a record
\* for exactly the entity-periods that have every required attribute
\* (effective labor, average wage, Elementary wage, output, capital,
\* human-capital index and alpha); the others are dropped.
C12_IncompleteRowsDropped ==
    pcC \in {"done", "raised"} => (pcC = "done" /\ DistortionTableComplete)

\* C12 for the runs of estimate_chip that return
C12_IncompleteRowsDroppedOnReturn == pcC = "done" => DistortionTableComplete

-----------------------------------------------------------------------------
(* pipeline.calculate_effective_labor and the reproduction's               *)
(* DataCleaner._calculate_effective_labor.  The raw labor data is a        *)
(* sequence of rows (country, year, occupation, labor_hours); the wage     *)
(* ratios are a set of rows (country, occupation, wage_ratio) with one row *)
(* at most per (country, occupation).                                      *)

\* labor_df.merge(wage_ratios, on=["country", "occupation"], how="left") and
\* df["wage_ratio"].fillna(1.0), df["eff_labor"] = labor_hours * wage_ratio
SkillWeighted(labor, ratios) ==
    Concat([i \in DOMAIN labor |->
        LET m == SetToSeq({r \in ratios : /\ r.country = labor[i].country
                                          /\ r.occupation = labor[i].occupation})
            row(w) == [country |-> labor[i].country, year |-> labor[i].year,
                       occupation |-> labor[i].occupation,
                       labor_hours |-> labor[i].labor_hours,
                       wage_ratio |-> IF isna(w) THEN Num(1) ELSE w,
                       eff_labor |-> RMul(labor[i].labor_hours,
                                          IF isna(w) THEN Num(1) ELSE w)]
        IN  IF m = <<>> THEN <<row(NaN)>> ELSE [j \in DOMAIN m |-> row(m[j].wage_ratio)]])

\* the keys (country, year) in increasing order, as groupby gives them
RECURSIVE SortedKeys(_)
SortedKeys(S) ==
    IF S = {} THEN <<>>
    ELSE LET k == CHOOSE a \in S :
                      \A b \in S : a[1] < b[1] \/ (a[1] = b[1] /\ a[2] <= b[2])
         IN  <<k>> \o SortedKeys(S \ {k})

\* df.groupby(["country", "year"]).agg({"labor_hours": "sum", "eff_labor": "sum"})
SumByCountryYear(rows) ==
    LET keys == SortedKeys(Range(KeysOf(rows)))
    IN  [n \in DOMAIN keys |->
            [country |-> keys[n][1], year |-> keys[n][2],
             labor_hours |-> sum(ColumnOf(KeyRows(rows, keys[n][1], keys[n][2]),
                                          "labor_hours")),
             eff_labor |-> sum(ColumnOf(KeyRows(rows, keys[n][1], keys[n][2]),
                                        "eff_labor"))]]

\* a calculate_effective_labor that drops the rows without a wage ratio
calculate_effective_labor_DropUnmatched(labor, ratios) ==
    SumByCountryYear(SkillWeighted(
        Filter(labor, {i \in DOMAIN labor :
            \E r \in ratios : /\ r.country = labor[i].country
                              /\ r.occupation = labor[i].occupation
                              /\ notna(r.wage_ratio)}),
        ratios))

\* pipeline.calculate_effective_labor(labor_df, wage_ratios)
calculate_effective_labor(labor, ratios) == SumByCountryYear(SkillWeighted(labor, ratios))

\* DataCleaner._calculate_effective_labor(df, wage_ratios): one row per labor row
cleaner_calculate_effective_labor(labor, ratios) == SkillWeighted(labor, ratios)

(* Inputs: country 1 has, for each of two years and two occupations, no    *)
(* row, a row with missing hours, or a row with 1..MaxHours hours; the     *)
(* Managers ratio is absent, missing or 1, the Elementary ratio is absent, *)
(* missing, 1/2 or 2.  Country 2 has one Elementary row and no wage ratio. *)

MaxHours == 2

LaborYears == {1, 2}
HourVals   == {Absent, NaN} \cup {Num(h) : h \in 1..MaxHours}
RatioVals(o) ==
    {Absent, NaN} \cup (IF o = "Managers" THEN {Num(1)} ELSE {Rat(1, 2), Num(2)})

LaborTable(f) ==
    LET cells == <<<<1, "Managers">>, <<1, "Elementary">>,
                   <<2, "Managers">>, <<2, "Elementary">>>>
        rows  == [i \in DOMAIN cells |->
                     [country |-> 1, year |-> cells[i][1], occupation |-> cells[i][2],
                      labor_hours |-> f[cells[i]]]]
    IN  Filter(rows, {i \in DOMAIN rows : f[cells[i]] # Absent})
        \o <<[country |-> 2, year |-> 1, occupation |-> "Elementary",
              labor_hours |-> Num(1)]>>

RatioTable(g) ==
    {[country |-> 1, occupation |-> o, wage_ratio |-> g[o]] :
        o \in {q \in Occupations : g[q] # Absent}}

LaborInit ==
    /\ pcL = "input"
    /\ labor_df \in {LaborTable(f) : f \in [LaborYears \X Occupations -> HourVals]}
    /\ ratios_df \in {RatioTable(g) :
                         g \in {h \in [Occupations -> {Absent, NaN, Num(1), Rat(1, 2), Num(2)}] :
                                   \A o \in Occupations : h[o] \in RatioVals(o)}}
    /\ eff_out = <<>>

\* eff_labor = calculate_effective_labor(labor, wage_ratios)
CalculateEffectiveLabor ==
    /\ pcL = "input"
    /\ eff_out' = calculate_effective_labor(labor_df, ratios_df)
    /\ pcL' = "workbench"
    /\ UNCHANGED <<labor_df, ratios_df, varsI, varsW, varsA, varsG, varsR, varsC, varsP>>

\* labor_data = self._calculate_effective_labor(labor_data, wage_ratios)
CleanerCalculateEffectiveLabor ==
    /\ pcL = "input"
    /\ eff_out' = cleaner_calculate_effective_labor(labor_df, ratios_df)
    /\ pcL' = "cleaner"
    /\ UNCHANGED <<labor_df, ratios_df, varsI, varsW, varsA, varsG, varsR, varsC, varsP>>

LaborNext == CalculateEffectiveLabor \/ CleanerCalculateEffectiveLabor

InitLabor == LaborInit /\ IdleI /\ IdleW /\ IdleA /\ IdleG /\ IdleR /\ IdleC /\ IdleP

SpecLabor == InitLabor /\ [][LaborNext]_vars

\* the skill weight of an entity-category: its wage ratio when one exists, else 1
SkillWeight(c, o) ==
    IF \E r \in ratios_df : r.country = c /\ r.occupation = o /\ notna(r.wage_ratio)
    THEN (CHOOSE r \in ratios_df : r.country = c /\ r.occupation = o).wage_ratio
    ELSE Num(1)

\* the sum of labor_hours * skill weight over the rows of an entity-period
\* with an observed volume
WeightedHours(c, y) ==
    LET g == Filter(labor_df, {i \in DOMAIN labor_df :
                 /\ labor_df[i].country = c /\ labor_df[i].year = y
                 /\ notna(labor_df[i].labor_hours)})
    IN  RSum([i \in DOMAIN g |-> RMul(g[i].labor_hours, SkillWeight(c, g[i].occupation))])

\* C13: calculate_effective_labor returns one row for each entity-period of
\* the raw labor data, and its eff_labor is the sum over the entity-period's
\* category rows of labor_hours * skill weight, the skill weight being the
\* entity-category wage ratio when one exists and 1 otherwise; rows without
\* a wage ratio are in the sum.  The reproduction gives every labor row
\* labor_hours * skill weight and drops none.
C13_EffectiveLaborSum ==
    /\ pcL = "workbench" =>
          /\ Range(KeysOf(eff_out)) = Range(KeysOf(labor_df))
          /\ Len(eff_out) = Cardinality(Range(KeysOf(labor_df)))
          /\ \A n \in DOMAIN eff_out :
                eff_out[n].eff_labor = WeightedHours(eff_out[n].country, eff_out[n].year)
    /\ pcL = "cleaner" =>
          /\ Len(eff_out) = Len(labor_df)
          /\ \A i \in DOMAIN eff_out :
                /\ KeysOf(eff_out)[i] = KeysOf(labor_df)[i]
                /\ eff_out[i].eff_labor =
                      RMul(labor_df[i].labor_hours,
                           SkillWeight(labor_df[i].country, labor_df[i].occupation))

\* an entity-period with a category that has a wage ratio other than 1 and a
\* category that has none, both with hours, summed by calculate_effective_labor
C13_Witness ==
    /\ pcL = "workbench"
    /\ \E i, j \in DOMAIN labor_df :
          /\ labor_df[i].country = 1 /\ labor_df[j].country = 1
          /\ labor_df[i].year = labor_df[j].year
          /\ notna(labor_df[i].labor_hours) /\ notna(labor_df[j].labor_hours)
          /\ SkillWeight(1, labor_df[i].occupation) = Rat(1, 2)
          /\ ~\E r \in ratios_df : r.country = 1 /\ r.occupation = labor_df[j].occupation
          /\ \E n \in DOMAIN eff_out :
                /\ eff_out[n].country = 1 /\ eff_out[n].year = labor_df[i].year
                /\ eff_out[n].eff_labor =
                      RAdd(RMul(labor_df[i].labor_hours, Rat(1, 2)), labor_df[j].labor_hours)


\* the observed category wages of an entity-period, and its Elementary wages
ObservedWages(c, y) ==
    LET g == KeyRows(labor_with_wages, c, y) IN [i \in DOMAIN g |-> g[i].wage]

ElementaryWages(c, y) ==
    LET g == Filter(labor_with_wages, {i \in DOMAIN labor_with_wages :
                 /\ labor_with_wages[i].country = c /\ labor_with_wages[i].year = y
                 /\ labor_with_wages[i].occupation = "Elementary"})
    IN  [i \in DOMAIN g |-> g[i].wage]

LnQ(q) == q[2]

\* the rows of the distortion table with positive capital, labor and hc
PowerRows ==
    {i \in DOMAIN chip_out.est_data :
        \A c \in {"rnna", "eff_labor", "hc"} : chip_out.est_data[i][c][1] = "exp"}

\* C15: in every record of the distortion table with positive capital,
\* effective labor and human-capital index, mpl is (1 - alpha) * e^x with
\* x = alpha * (ln capital - ln effective labor + ln hc), that is
\* (1 - alpha) * ((capital / effective labor) * hc)^alpha: the human-capital
\* index is inside the base that is raised to the power alpha.
C15_HcInsidePower ==
    pcC \in {"done", "estimator"} =>
        \A i \in PowerRows :
            LET r == chip_out.est_data[i]
            IN  r.mpl = ENum(RSub(Num(1), r.alpha),
                             RMul(r.alpha, Num(LnQ(r.rnna) - LnQ(r.eff_labor) + LnQ(r.hc))))

\* a record with hc other than 1 (ln hc = 1) and alpha 1/2
C15_Witness ==
    /\ pcC = "done"
    /\ \E i \in PowerRows :
          LET r == chip_out.est_data[i]
          IN  /\ r.hc = QExp(1) /\ r.alpha = Rat(1, 2)
              /\ r.rnna = QExp(2) /\ r.eff_labor = QExp(-1)
              /\ r.mpl = ENum(Rat(1, 2), Num(2))


-----------------------------------------------------------------------------
(* Further properties of the workbench aggregation (SpecAgg) *)

\* C16: when at least one entity has an observed chip_value, unweighted
\* returns the arithmetic mean of chip_value over the n entities with an
\* observed chip_value: the contributions table lists exactly those entities,
\* each with weight 1/n and contribution chip_value / n, and the contributions
\* sum to the returned chip_value.
C16_UnweightedIsMean ==
    SchemeDone({"unweighted"}) =>
        LET inc == Included("unweighted", country_df)
            n   == Len(inc)
        IN  n > 0 =>
               /\ ~out.raised
               /\ out.chip_value = RDiv(RSum(ColumnOf(inc, "chip_value")), Num(n))
               /\ out.n_countries = n
               /\ Len(out.contributions) = n
               /\ \A i \in DOMAIN inc :
                    \E j \in DOMAIN out.contributions :
                        /\ out.contributions[j].country = inc[i].country
                        /\ out.contributions[j].weight = Rat(1, n)
                        /\ out.contributions[j].contribution =
                               RDiv(inc[i].chip_value, Num(n))
               /\ RSum(ColumnOf(out.contributions, "contribution")) = out.chip_value

\* unweighted has returned the mean of two observed, different chip values
C16_Witness ==
    /\ SchemeDone({"unweighted"})
    /\ ~out.raised
    /\ Len(out.contributions) = 2
    /\ out.contributions[1].chip_value # out.contributions[2].chip_value
    /\ out.contributions[1].weight = Rat(1, 2)
    /\ out.chip_value = RDiv(RAdd(out.contributions[1].chip_value,
                                  out.contributions[2].chip_value), Num(2))


-----------------------------------------------------------------------------
(* Further properties of the imputation (SpecImpute) *)

\* the columns of a table with a missing value
WithMissing(d) == {c \in Cols : \E i \in DOMAIN d : isna(d[i][c])}

\* C17: when no target column of the input has a missing value, norm_predict
\* and impute_wage_ratios return a table equal to the input.
C17_NoOpOnComplete ==
    (/\ pcI \in {"done", "ratios"}
     /\ Range(target_cols) \cap WithMissing(df) = {})
    => imputed = df

\* norm_predict has returned for a complete target column beside a column
\* with missing values
C17_Witness ==
    /\ pcI = "done" /\ target_cols = <<"A">>
    /\ WithMissing(df) = {"B"}
    /\ imputed = df

\* impute_wage_ratios has returned for a complete table
C17_WitnessRatios == pcI = "ratios" /\ WithMissing(df) = {} /\ imputed = df


-----------------------------------------------------------------------------
(* Several target columns in one call of norm_predict.                     *)

\* C19: when norm_predict imputes several target columns in one call, every
\* target column of the result is what one pass on the input table alone
\* gives for it: the complete rows and the predictions of a later column use
\* only the predictor values observed in the input, never a value imputed
\* for an earlier column in the same call.
C19_LaterTargetUsesInputOnly ==
    (pcI \in {"done", "ratios"} /\ Len(target_cols) = 2) =>
        \A k \in 1..Len(target_cols) :
            LET t == target_cols[k]
            IN  Column(imputed, t) = Column(ImputeTarget(df, t, Cols), t)

\* the consequence C19 draws: the result of a call with two target columns
\* does not depend on the order in which the columns are processed
C19_OrderIndependent ==
    (pcI = "done" /\ Len(target_cols) = 2) =>
        imputed = norm_predict(df, <<target_cols[2], target_cols[1]>>)


\* norm_predict takes the regression branch for a target: enough complete
\* rows to fit, and at least one row to predict
RegressionBranch(d, target) ==
    /\ Cardinality(TrainRows(d, target)) >= MIN_TRAIN
    /\ PredRows(d, target) # {}

\* C20: in the regression branch of norm_predict, a row whose target is
\* missing and whose predictor is missing too is filled with the mean of the
\* values of the target observed in the input; the predictions written for
\* other rows in the same pass are not part of that mean.
C20_FallbackMeanOfObserved ==
    pcI = "done" =>
        LET t == Head(target_cols)
        IN  RegressionBranch(df, t) =>
                \A i \in DOMAIN df :
                    (isna(df[i][t]) /\ i \notin PredRows(df, t))
                        => imputed[i][t] = mean(Column(df, t))


-----------------------------------------------------------------------------
(* The two branches of norm_predict.                                       *)

\* the regression prediction of norm_predict for row i of the table d
RegressionValue(d, target, i) ==
    LET p == CHOOSE q \in Cols \ {target} : TRUE
        train_mask == TrainRows(d, target)
    IN  Predict1(Lstsq1(Pick(d, train_mask, p, 1), Pick(d, train_mask, target, 1)),
                 d[i][p])

\* C21: in norm_predict, for every target column of the call: when fewer
\* than 3 rows of the input have the target and the predictor observed, every
\* missing cell of the target is filled with the mean of the target's
\* observed values and no regression prediction is used; with 3 or more such
\* rows the regression is fitted and every row whose predictor is observed
\* gets its prediction.
C21_TrainingThreshold ==
    pcI = "done" =>
        \A k \in 1..Len(target_cols) :
            LET t == target_cols[k]
            IN  IF Cardinality(TrainRows(df, t)) < 3
                THEN \A i \in DOMAIN df :
                        isna(df[i][t]) => imputed[i][t] = mean(Column(df, t))
                ELSE \A i \in PredRows(df, t) :
                        imputed[i][t] = RegressionValue(df, t, i)

\* the same for the first target column of the call, which is processed on
\* the input table as it was passed
C21_FirstTargetThreshold ==
    pcI = "done" =>
        LET t == Head(target_cols)
        IN  IF Cardinality(TrainRows(df, t)) < 3
            THEN \A i \in DOMAIN df :
                    isna(df[i][t]) => imputed[i][t] = mean(Column(df, t))
            ELSE \A i \in PredRows(df, t) :
                    imputed[i][t] = RegressionValue(df, t, i)

\* two complete rows, and a row to fill whose predictor is observed and whose
\* two-row prediction would not be the mean
C21_FirstTargetMean ==
    /\ pcI = "done"
    /\ Cardinality(TrainRows(df, Head(target_cols))) = 2
    /\ \E i \in PredRows(df, Head(target_cols)) :
          /\ imputed[i][Head(target_cols)] = mean(Column(df, Head(target_cols)))
          /\ RegressionValue(df, Head(target_cols), i) # mean(Column(df, Head(target_cols)))

\* three complete rows, and a row filled with a prediction that is not the mean
C21_FirstTargetRegression ==
    /\ pcI = "done"
    /\ Cardinality(TrainRows(df, Head(target_cols))) = 3
    /\ \E i \in PredRows(df, Head(target_cols)) :
          /\ imputed[i][Head(target_cols)] = RegressionValue(df, Head(target_cols), i)
          /\ imputed[i][Head(target_cols)] # mean(Column(df, Head(target_cols)))


-----------------------------------------------------------------------------
(* Periods without a usable reference wage, in calculate_wage_ratios.      *)

\* the periods of (country, occupation) whose reference wage is observed and
\* not zero
ValidPeriods(c, o) ==
    {y \in Years : /\ \E r \in wages_df : r.country = c /\ r.year = y /\ r.occupation = o
                   /\ isfinite(W(c, y, "Managers"))
                   /\ W(c, y, "Managers") # Num(0)}

\* C22: calculate_wage_ratios excludes from the averaged ratio of an entity
\* and category every period whose reference wage is zero or missing: the
\* ratio is the mean of the per-period ratios over the other periods, and it
\* is missing when there is no such period.
C22_InvalidReferenceExcluded ==
    pcW = "done" =>
        \A r \in wage_ratios :
            LET ys == SetToSeq(ValidPeriods(r.country, r.occupation))
            IN  r.wage_ratio
                  = mean([i \in DOMAIN ys |-> PeriodRatio(r.country, r.occupation, ys[i])])

\* the same for a missing reference wage alone: no period has a reference
\* wage of zero
C22_MissingReferenceExcluded ==
    (pcW = "done" /\ \A r \in wages_df : r.occupation = "Managers" => r.wage # Num(0)) =>
        \A r \in wage_ratios :
            LET ys == SetToSeq(ValidPeriods(r.country, r.occupation))
            IN  r.wage_ratio
                  = mean([i \in DOMAIN ys |-> PeriodRatio(r.country, r.occupation, ys[i])])


-----------------------------------------------------------------------------
(* The sign of the wage ratios.                                            *)

\* C23: every wage ratio in the table returned by pipeline.impute_wage_ratios
\* is >= 0 when every ratio of its input is: the cells filled by regression
\* or by the mean included.
C23_ImputedRatiosNonNegative ==
    (pcI = "pipeline"
        /\ \A r \in ratio_rows : notna(r.wage_ratio) => RLe(Num(0), r.wage_ratio)) =>
        \A k \in DOMAIN imputed :
            notna(imputed[k].wage_ratio) => RLe(Num(0), imputed[k].wage_ratio)

\* the first half of C23: on wages that are >= 0 or missing, every ratio that
\* calculate_wage_ratios returns is >= 0 or missing
C23_CalculatedRatiosNonNegative ==
    (pcW = "done"
        /\ \A r \in wages_df : notna(r.wage) => RLe(Num(0), r.wage)) =>
        \A r \in wage_ratios : notna(r.wage_ratio) => RLe(Num(0), r.wage_ratio)


-----------------------------------------------------------------------------
(* The table returned by pipeline.impute_wage_ratios.                      *)

InputCountries   == {r.country : r \in ratio_rows}
InputOccupations == {r.occupation : r \in ratio_rows}

\* the rows of the returned table for (country, occupation)
ImputedRows(c, o) ==
    {k \in DOMAIN imputed : imputed[k].country = c /\ imputed[k].occupation = o}

\* the pivot of the input, and the occupation columns that are processed on
\* it as it is: every column before them has no missing cell
InputPivot == wage_pivot_of(ratio_rows).rows

ProcessedOnInput(o) ==
    \A q \in InputOccupations :
        (q = "A" /\ o = "B") => \A i \in DOMAIN InputPivot : notna(InputPivot[i][q])

-----------------------------------------------------------------------------
(* The observations behind a direct alpha estimate.                        *)

\* the observations of a country in the input whose ln(rgdpna / L_eff) and
\* ln(rnna / L_eff) are both finite
FiniteObs(c) ==
    LET country_data == RowsOfCountry(est_data, c)
    IN  {i \in DOMAIN country_data :
            /\ isfinite(LogPerLeff(country_data[i], "rgdpna"))
            /\ isfinite(LogPerLeff(country_data[i], "rnna"))}

\* the OLS slope of ln_y on ln_k over the finite observations of a country
FiniteObsSlope(c) ==
    LET country_data == RowsOfCountry(est_data, c)
        finite == Filter(country_data, FiniteObs(c))
    IN  Lstsq1([k \in DOMAIN finite |-> LogPerLeff(finite[k], "rnna")],
               [k \in DOMAIN finite |-> LogPerLeff(finite[k], "rgdpna")])[2]

\* C25: estimate_alphas (and the Estimator's _estimate_country_alphas on the
\* prepared data) has a direct alpha estimate for a country only if the
\* country has at least 3 observations whose ln(output / L_eff) and
\* ln(capital / L_eff) are both finite, and the estimate is the slope fitted
\* on those observations alone.
C25_ThreeFiniteObservations ==
    (Workbench({"estimated", "imputed", "raised"})
       \/ Reproduction({"estimated", "filtered", "imputed"})) =>
        \A i \in DOMAIN alphas_est :
            /\ Cardinality(FiniteObs(alphas_est[i].country)) >= 3
            /\ (IF engine = "workbench" THEN alphas_est[i].alpha
                ELSE alphas_est[i].alpha_raw) = FiniteObsSlope(alphas_est[i].country)

\* estimate_alphas has run on a country with three observations of which two
\* are finite, which has no estimate, and on a country with four observations
\* of which three are finite, which has one
C25_Witness ==
    /\ Workbench({"estimated"})
    /\ \E c \in Range(CountriesOf(est_data)) :
          /\ Len(RowsOfCountry(est_data, c)) >= 3
          /\ Cardinality(FiniteObs(c)) = 2
          /\ c \notin Estimated
    /\ \E c \in Estimated :
          /\ Len(RowsOfCountry(est_data, c)) = 4
          /\ Cardinality(FiniteObs(c)) = 3


-----------------------------------------------------------------------------
(* The countries of the alpha table returned by Estimator.estimate.        *)

\* C26: when Estimator.estimate returns, every country of the prepared
\* estimation data has a row in the returned alpha table with a non-missing
\* alpha: the countries without an accepted alpha, those with fewer than 3
\* observations included, hold an imputed one, so that
\* Estimator.calculate_mpl drops no country for lack of alpha.
C26_EveryCountryHasAlpha ==
    Reproduction({"imputed"}) =>
        \A c \in AlphaCountries :
            \E i \in DOMAIN alphas : alphas[i].country = c /\ notna(alphas[i].alpha)

\* the same for the countries that have a row in the table of estimates,
\* when at least one estimate was accepted
C26_EveryEstimatedCountryHasAlpha ==
    (Reproduction({"imputed"}) /\ \E i \in DOMAIN alphas : alphas[i].alpha_valid) =>
        \A c \in Estimated :
            \E i \in DOMAIN alphas : alphas[i].country = c /\ notna(alphas[i].alpha)


-----------------------------------------------------------------------------
(* The range of the alphas after estimate_alphas and impute_alphas.        *)

\* every alpha of the table is strictly inside (0, 1), and every country
\* without a direct estimate holds a second-stage value in [0.01, 0.99] or
\* the mean fallback: the mean of the accepted alphas, 0.33 when there is none
AlphasInRange ==
    /\ \A i \in DOMAIN alphas : InOpen(alphas[i].alpha, Num(0), Num(1))
    /\ \A c \in Lacking :
          \E i \in AlphaRows(c) :
              IF Len(FitRows) >= MIN_ENTITIES /\ FiniteChars(c)
              THEN RLe(CLIP_LO, alphas[i].alpha) /\ RLe(alphas[i].alpha, CLIP_HI)
              ELSE alphas[i].alpha = (IF Len(alphas_est) > 0
                                      THEN mean(AlphaCol(alphas_est))
                                      ELSE Rat(33, 100))

\* C27: after estimate_alphas followed by impute_alphas, for any input, every
\* alpha of the resulting table lies strictly between 0 and 1: the direct
\* estimates are in (0, 1), the regression-imputed values are in
\* [0.01, 0.99], and the mean fallback is the mean of the accepted alphas, or
\* 0.33 when no country has an accepted alpha.
C27_AlphasInUnitInterval == Workbench({"imputed", "raised"}) => AlphasInRange

\* C27 where impute_alphas returns
C27_AlphasInUnitIntervalOnReturn == Workbench({"imputed"}) => AlphasInRange


-----------------------------------------------------------------------------
(* estimate_chip without the imputation of alphas.                         *)

\* the direct estimate of a country in estimate_chip: <<>> or one row
DirectAlpha(c) == EstimateCountry(dropna_alpha_required(chip_data), c)

\* C28: with enable_imputation = False, estimate_chip assigns no default or
\* mean alpha: every record of the distortion table belongs to a country
\* with an accepted direct alpha and holds that alpha, so no row reaches
\* calculate_mpl with a missing alpha for default_alpha to fill.
C28_NoDefaultAlphaWithoutImputation ==
    (pcC = "done" /\ ~enable_imputation) =>
        \A i \in DOMAIN chip_out.est_data :
            /\ DirectAlpha(chip_out.est_data[i].country) # <<>>
            /\ chip_out.est_data[i].alpha
                 = DirectAlpha(chip_out.est_data[i].country)[1].alpha

\* estimate_chip has returned without imputation on data with a country that
\* has complete records but no accepted alpha: the table holds the other
\* country alone
C28_Witness ==
    /\ pcC = "done" /\ ~enable_imputation
    /\ chip_out.est_data # <<>>
    /\ \E i \in DOMAIN chip_data :
          /\ chip_data[i].eff_labor # QNaN /\ chip_data[i].rgdpna # QNaN
          /\ chip_data[i].rnna # QNaN /\ chip_data[i].hc # QNaN
          /\ notna(chip_data[i].aw_wage) /\ notna(chip_data[i].elementary_wage)
          /\ DirectAlpha(chip_data[i].country) = <<>>
          /\ \A j \in DOMAIN chip_out.est_data :
                chip_out.est_data[j].country # chip_data[i].country


-----------------------------------------------------------------------------
(* pipeline.gdp_weighted_chip against aggregate.gdp_weighted.              *)

\* C29: on every country table for which aggregate.gdp_weighted returns,
\* pipeline.gdp_weighted_chip returns the same global value as its
\* chip_value, the tables in which some countries have a missing chip_value
\* or a missing gdp included: both normalise the weights over the countries
\* that have both values observed.
C29_SameGlobalValue ==
    (pcG = "done" /\ caller = "gdp_weighted_chip"
        /\ ~gdp_weighted(country_df).raised) =>
        /\ ~out.raised
        /\ out.chip_value = gdp_weighted(country_df).chip_value

\* the same on the tables where every country has both values observed and
\* the total gdp is positive
C29_SameOnCompleteTables ==
    (pcG = "done" /\ caller = "gdp_weighted_chip"
        /\ HasColumns(country_df, {"chip_value", "gdp"})
        /\ country_df.rows # <<>>
        /\ \A i \in DOMAIN country_df.rows :
              notna(country_df.rows[i].chip_value) /\ notna(country_df.rows[i].gdp)
        /\ RLt(Num(0), sum(ColumnOf(country_df.rows, "gdp")))) =>
        /\ ~out.raised
        /\ ~gdp_weighted(country_df).raised
        /\ out.chip_value = gdp_weighted(country_df).chip_value


-----------------------------------------------------------------------------
(* reproduction: main.run_pipeline and main.main, with the context managers *)
(* PipelineContext and StepContext of logging_config.py.  A step of a run   *)
(* that is not a dry run may raise; a dry run only logs.                    *)

StepNames ==
    <<"Fetch data from sources", "Clean and merge data",
      "Estimate Cobb-Douglas production function", "Calculate distortion factors",
      "Aggregate to global CHIP value", "Save outputs">>

RunInit ==
    /\ pcP = "start"
    /\ run_config \in [dry_run : BOOLEAN, save_intermediate : BOOLEAN, excluded : BOOLEAN]
    /\ steps = <<>>
    /\ errors = <<>>
    /\ warnings = <<>>
    /\ raising = "none"
    /\ results = <<>>
    /\ ctx_report = <<>>
    /\ report_saved = FALSE
    /\ main_branch = "none"

\* with PipelineContext("CHIP Reproduction", logger) as ctx: __enter__
PipelineContextEnter ==
    /\ pcP = "start"
    /\ pcP' = "step"
    /\ UNCHANGED <<run_config, steps, errors, warnings, raising, results, ctx_report,
                   report_saved, main_branch,
                   varsI, varsW, varsA, varsG, varsR, varsC, varsL>>

\* with ctx.step(name): the step is recorded as running
CtxStep ==
    /\ pcP = "step"
    /\ steps' = Append(steps, [name |-> StepNames[Len(steps) + 1], status |-> "running",
                               error |-> "none"])
    /\ pcP' = "body"
    /\ UNCHANGED <<run_config, errors, warnings, raising, results, ctx_report,
                   report_saved, main_branch,
                   varsI, varsW, varsA, varsG, varsR, varsC, varsL>>

\* the body of the step: it completes, or (outside a dry run) it raises
StepBody ==
    /\ pcP = "body"
    /\ \/ /\ raising' = "none"
          /\ warnings' = IF Len(steps) = 2 /\ ~run_config.dry_run /\ run_config.excluded
                         THEN Append(warnings, "Excluded observations per config")
                         ELSE warnings
          /\ results' = IF Len(steps) = 5
                        THEN (IF run_config.dry_run THEN "dry_run" ELSE "aggregate")
                        ELSE results
       \/ /\ ~run_config.dry_run
          /\ Len(steps) < 6 \/ run_config.save_intermediate
          /\ raising' = "Exception"
          /\ UNCHANGED <<warnings, results>>
    /\ pcP' = "step_exit"
    /\ UNCHANGED <<run_config, steps, errors, ctx_report, report_saved, main_branch,
                   varsI, varsW, varsA, varsG, varsR, varsC, varsL>>

\* StepContext.__exit__: the status of the step; the exception is not suppressed
StepContextExit ==
    /\ pcP = "step_exit"
    /\ steps' = [steps EXCEPT ![Len(steps)] =
                    IF raising # "none"
                    THEN [name |-> @.name, status |-> "failed", error |-> raising]
                    ELSE [name |-> @.name, status |-> "completed", error |-> "none"]]
    /\ pcP' = IF raising # "none" \/ Len(steps) = Len(StepNames)
              THEN "pipeline_exit" ELSE "step"
    /\ UNCHANGED <<run_config, errors, warnings, raising, results, ctx_report,
                   report_saved, main_branch,
                   varsI, varsW, varsA, varsG, varsR, varsC, varsL>>

\* PipelineContext.__exit__: the error is recorded; the exception is not
\* suppressed and leaves run_pipeline
PipelineContextExit ==
    /\ pcP = "pipeline_exit"
    /\ errors' = IF raising # "none"
                 THEN Append(errors, [type |-> raising, message |-> raising,
                                      step |-> steps[Len(steps)].name])
                 ELSE errors
    /\ pcP' = IF raising # "none" THEN "raised" ELSE "report"
    /\ UNCHANGED <<run_config, steps, warnings, raising, results, ctx_report,
                   report_saved, main_branch,
                   varsI, varsW, varsA, varsG, varsR, varsC, varsL>>

\* ctx.generate_report(), save_report(...), return ctx_report
GenerateReport ==
    /\ pcP = "report"
    /\ ctx_report' = [steps |-> steps, warnings |-> warnings, errors |-> errors,
                      status |-> IF errors # <<>> THEN "failed" ELSE "success",
                      results |-> results]
    /\ report_saved' = TRUE
    /\ pcP' = "returned"
    /\ UNCHANGED <<run_config, steps, errors, warnings, raising, results, main_branch,
                   varsI, varsW, varsA, varsG, varsR, varsC, varsL>>

\* main: the try block around run_pipeline
Main ==
    /\ pcP \in {"returned", "raised"}
    /\ main_branch' = IF pcP = "raised" THEN "Fatal error"
                      ELSE IF ctx_report.status = "success" THEN "success"
                      ELSE "Pipeline failed"
    /\ pcP' = "exited"
    /\ UNCHANGED <<run_config, steps, errors, warnings, raising, results, ctx_report,
                   report_saved,
                   varsI, varsW, varsA, varsG, varsR, varsC, varsL>>

RunNext ==
    \/ PipelineContextEnter
    \/ CtxStep
    \/ StepBody
    \/ StepContextExit
    \/ PipelineContextExit
    \/ GenerateReport
    \/ Main

InitRun == RunInit /\ IdleI /\ IdleW /\ IdleA /\ IdleG /\ IdleR /\ IdleC /\ IdleL

SpecRun == InitRun /\ [][RunNext]_vars

\* a step of the run has raised
StepRaised == \E k \in DOMAIN steps : steps[k].status = "failed"

\* C30: every run of run_pipeline ends with a report generated, saved and
\* returned, a run in which a step raises included: there the failing step
\* has the status 'failed' and its error, the error is recorded against that
\* step, the report has the status 'failed' and main takes its 'Pipeline
\* failed' branch; the status of the report is 'failed' exactly when an error
\* was recorded.
C30_EveryRunReports ==
    pcP = "exited" =>
        /\ ctx_report # <<>> /\ report_saved
        /\ (ctx_report.status = "failed") <=> (errors # <<>>)
        /\ StepRaised =>
              /\ \E k \in DOMAIN steps :
                    /\ steps[k].status = "failed" /\ steps[k].error # "none"
                    /\ \E e \in DOMAIN errors : errors[e].step = steps[k].name
              /\ ctx_report.status = "failed"
              /\ main_branch = "Pipeline failed"

\* C30 for the runs in which no step raises
C30_CleanRunReports ==
    (pcP = "exited" /\ ~StepRaised) =>
        /\ ctx_report # <<>> /\ report_saved
        /\ ctx_report.status = "success" /\ errors = <<>>
        /\ main_branch = "success"

\* main never takes the branch 'Pipeline failed'
C30_PipelineFailedUnreachable == main_branch # "Pipeline failed"

=============================================================================
